---- MODULE Spec2Model ----
(***************************************************************************)
(* State-and-data core of the DIY Weather Clock firmware (ESP8266):        *)
(*   - Config Store: saveSettings / loadSettings over the EEPROM layout    *)
(*   - Environmental Fetcher: getWeather / getWeatherExpired               *)
(* Strings are sequences: configuration strings are sequences of bytes     *)
(* (0..255), response text is a sequence of one-character strings.         *)
(***************************************************************************)
EXTENDS Integers, Sequences, FiniteSets, TLC

VARIABLES
    eeprom,        \* EEPROM contents, address -> byte
    config,        \* the config_* globals, one field per global
    phase,         \* position of the scenario being run
    saved,         \* the config_* values saveSettings was last called with
    prior,         \* EEPROM contents when saveSettings was entered
    savePos,       \* number of EEPROM.write calls of saveSettings already done
    weather,       \* the weather_* globals except weather_valid
    weather_valid,
    getWeatherCounter,
    now,           \* millis()
    calls,         \* number of getWeather calls made so far
    sinceExt,      \* queries built since the last one that asked for sun data
    call,          \* the latest getWeather call: its inputs and what it did
    wifiMode,      \* WiFi.getMode(): "OFF", "STA" or "AP"
    rebootIn10mins,
    httpStatus,    \* status of the latest answer of handleConfigForm, 0 before any
    boots,         \* number of times setup() has run
    tod,           \* second of the local day at the latest brightness computation, -1 before any
    brightness,    \* lastBrightness_: the latest computed brightness
    lastScreenSwitch,
    showWeatherScreen,
    lastWeatherFetch,
    screen         \* what the latest iteration of loop() drew: "none", "time" or "weather"

cfgVars == <<eeprom, config, phase, saved, prior, savePos>>
wxVars  == <<weather, weather_valid, getWeatherCounter, now, calls, sinceExt, call>>
sysVars == <<wifiMode, rebootIn10mins, httpStatus, boots>>
loopVars == <<lastScreenSwitch, showWeatherScreen, lastWeatherFetch, screen>>
dispVars == <<tod, brightness, loopVars>>
vars    == <<cfgVars, wxVars, sysVars, dispVars>>

(***************************************************************************)
(* Bounds of the model.                                                    *)
(***************************************************************************)
MaxStrLen == 2      \* longest enumerated short configuration string
MaxCalls  == 3      \* getWeather calls in one run of the fetcher
MaxCadence == 5     \* getWeather calls in one run of the query cadence
MaxBoots  == 2      \* resets in one run
MaxOver   == 3      \* bytes by which a string exceeds the maximum of its slot
ApStep    == 190000 \* milliseconds of loop() iterations in the portal taken in one step
MaxPortalUptime == 900000 \* millis() up to which loop() is followed in the portal (15 minutes)
MaxUptime == 5460000 \* millis() up to which loop() is followed in station mode (91 minutes)
FetchMs   == 2000   \* duration of a getWeather call made by loop(), in milliseconds
MaxLineLen == 4     \* longest enumerated response text of the line scan
MaxCityLen == 2     \* longest enumerated city name of the URL encoding
GridPoints == 24    \* evenly spaced instants of the day at which the brightness is computed
RampPoints == 12    \* evenly spaced instants of each ramp at which it is computed
MidnightWindow == 20 \* seconds before and after midnight at which it is computed

(***************************************************************************)
(* EEPROM layout.                                                          *)
(***************************************************************************)
EEPROM_SIZE      == 512
ADDR_SSID        == 0
ADDR_PASS        == 70
ADDR_CITY        == 140
ADDR_TZ          == 210
ADDR_VARIABLES   == 300
ADDR_SIGNATURE   == 500
DEVICE_SIGNATURE == 50      \* '2'
OLD_DEVICE_SIGNATURE == 49  \* '1', the older firmware variant
MAX_SSID == 60
MAX_PASS == 60
MAX_CITY == 60
MAX_TZ   == 80
CHAR_C == 67
CHAR_F == 70
CHAR_G == 71

Byte == 0..255
Addr == 0..(EEPROM_SIZE - 1)

Min(a, b) == IF a < b THEN a ELSE b

\* a string of n copies of byte c
Fill(n, c) == [i \in 1..n |-> c]

\* "UTC0"
TZ_UTC0 == <<85, 84, 67, 48>>
\* "CET-1CEST,M3.5.0/2,M10.5.0/3", the initializer of config_timezone
TZ_CET == <<67, 69, 84, 45, 49, 67, 69, 83, 84, 44, 77, 51, 46, 53, 46, 48, 47, 50,
            44, 77, 49, 48, 46, 53, 46, 48, 47, 51>>

\* The config_* globals as initialized at reset.
ConfigGlobals ==
    [wifiSSID |-> <<>>, wifiPass |-> <<>>, city |-> <<>>,
     showSeconds |-> FALSE, imperial |-> FALSE,
     timezone |-> TZ_CET, timezone_manual |-> FALSE,
     variableContrast |-> FALSE, contrastFollowSun |-> FALSE,
     dayContrast |-> 255, nightContrast |-> 1,
     dawnDuskDuration |-> 30, sunRise |-> 25200, sunSet |-> 75600]

(***************************************************************************)
(* Reading.                                                                *)
(***************************************************************************)
\* String(const char*): the bytes before the first NUL
RECURSIVE CStr(_)
CStr(buf) ==
    IF buf = <<>> \/ Head(buf) = 0 THEN <<>>
    ELSE <<Head(buf)>> \o CStr(Tail(buf))

eepromReadU16(mem, addr) == mem[addr] + 256 * mem[addr + 1]

\* a uint32_t as its two 16-bit halves (kept apart so that no intermediate value exceeds 2^31)
eepromReadU32(mem, addr) ==
    [lo |-> mem[addr] + 256 * mem[addr + 1],
     hi |-> mem[addr + 2] + 256 * mem[addr + 3]]

\* v > n for a uint32_t v and 0 <= n < 2^31
U32Greater(v, n) ==
    \/ v.hi > n \div 65536
    \/ v.hi = n \div 65536 /\ v.lo > n % 65536

\* the number a uint32_t below 2^31 stands for
U32Value(v) == v.hi * 65536 + v.lo

eepromReadString(mem, baseAddr, maxLen) ==
    LET len0 == mem[baseAddr] IN
    IF len0 = 0 \/ len0 = 255 THEN <<>>
    ELSE LET len == IF len0 > maxLen THEN maxLen ELSE len0
         IN  CStr([i \in 1..len |-> mem[baseAddr + i]])

\* bit k of a flag byte
Bit(flags, k) == (flags \div (2 ^ k)) % 2 = 1

\* variant: the version byte is not compared
sigOk_anyVersion(mem) ==
    /\ mem[ADDR_SIGNATURE]     = CHAR_C
    /\ mem[ADDR_SIGNATURE + 1] = CHAR_F
    /\ mem[ADDR_SIGNATURE + 2] = CHAR_G

sigOk(mem) ==
    /\ mem[ADDR_SIGNATURE]     = CHAR_C
    /\ mem[ADDR_SIGNATURE + 1] = CHAR_F
    /\ mem[ADDR_SIGNATURE + 2] = CHAR_G
    /\ mem[ADDR_SIGNATURE + 3] = DEVICE_SIGNATURE

\* variant: an empty timezone is left as read
loadSettings_noTzFallback(mem, cfg) ==
    IF ~sigOk(mem)
    THEN [cfg EXCEPT !.wifiSSID = <<>>, !.wifiPass = <<>>, !.city = <<>>,
                     !.timezone = TZ_UTC0, !.timezone_manual = FALSE,
                     !.showSeconds = FALSE, !.imperial = FALSE,
                     !.variableContrast = FALSE,
                     !.dayContrast = 255, !.nightContrast = 10,
                     !.dawnDuskDuration = 30,
                     !.sunRise = 25200, !.sunSet = 75600]
    ELSE
      LET tz    == eepromReadString(mem, ADDR_TZ, MAX_TZ)
          flags == mem[ADDR_VARIABLES]
          dawn  == eepromReadU16(mem, ADDR_VARIABLES + 3)
          rise  == eepromReadU32(mem, ADDR_VARIABLES + 5)
          set   == eepromReadU32(mem, ADDR_VARIABLES + 9)
      IN [wifiSSID |-> eepromReadString(mem, ADDR_SSID, MAX_SSID),
          wifiPass |-> eepromReadString(mem, ADDR_PASS, MAX_PASS),
          city     |-> eepromReadString(mem, ADDR_CITY, MAX_CITY),
          timezone |-> tz,
          timezone_manual   |-> Bit(flags, 0),
          showSeconds       |-> Bit(flags, 1),
          imperial          |-> Bit(flags, 2),
          variableContrast  |-> Bit(flags, 3),
          contrastFollowSun |-> Bit(flags, 4),
          dayContrast       |-> mem[ADDR_VARIABLES + 1],
          nightContrast     |-> mem[ADDR_VARIABLES + 2],
          dawnDuskDuration  |-> IF dawn > 240 THEN 30 ELSE dawn,
          sunRise           |-> IF U32Greater(rise, 86399) THEN 25200 ELSE U32Value(rise),
          sunSet            |-> IF U32Greater(set, 86399) THEN 75600 ELSE U32Value(set)]

\* loadSettings(): the config_* globals after the call, given them before it
loadSettings(mem, cfg) ==
    IF ~sigOk(mem)
    THEN [cfg EXCEPT !.wifiSSID = <<>>, !.wifiPass = <<>>, !.city = <<>>,
                     !.timezone = TZ_UTC0, !.timezone_manual = FALSE,
                     !.showSeconds = FALSE, !.imperial = FALSE,
                     !.variableContrast = FALSE,
                     !.dayContrast = 255, !.nightContrast = 10,
                     !.dawnDuskDuration = 30,
                     !.sunRise = 25200, !.sunSet = 75600]
    ELSE
      LET tz    == eepromReadString(mem, ADDR_TZ, MAX_TZ)
          flags == mem[ADDR_VARIABLES]
          dawn  == eepromReadU16(mem, ADDR_VARIABLES + 3)
          rise  == eepromReadU32(mem, ADDR_VARIABLES + 5)
          set   == eepromReadU32(mem, ADDR_VARIABLES + 9)
      IN [wifiSSID |-> eepromReadString(mem, ADDR_SSID, MAX_SSID),
          wifiPass |-> eepromReadString(mem, ADDR_PASS, MAX_PASS),
          city     |-> eepromReadString(mem, ADDR_CITY, MAX_CITY),
          timezone |-> IF Len(tz) = 0 THEN TZ_UTC0 ELSE tz,
          timezone_manual   |-> IF Len(tz) = 0 THEN FALSE ELSE Bit(flags, 0),
          showSeconds       |-> Bit(flags, 1),
          imperial          |-> Bit(flags, 2),
          variableContrast  |-> Bit(flags, 3),
          contrastFollowSun |-> Bit(flags, 4),
          dayContrast       |-> mem[ADDR_VARIABLES + 1],
          nightContrast     |-> mem[ADDR_VARIABLES + 2],
          dawnDuskDuration  |-> IF dawn > 240 THEN 30 ELSE dawn,
          sunRise           |-> IF U32Greater(rise, 86399) THEN 25200 ELSE U32Value(rise),
          sunSet            |-> IF U32Greater(set, 86399) THEN 75600 ELSE U32Value(set)]

(***************************************************************************)
(* Writing.  A function of the code is the sequence of EEPROM.write calls   *)
(* it makes, each <<address, byte>>, in program order.                     *)
(***************************************************************************)
\* variant: the length is not limited to maxLen
eepromWriteString_unclamped(baseAddr, s, maxLen) ==
    <<  <<baseAddr, Len(s) % 256>>  >>
    \o [i \in 1..Len(s) |-> <<baseAddr + i, s[i]>>]
    \o [i \in 1..(maxLen - Len(s)) |-> <<baseAddr + Len(s) + i, 0>>]

eepromWriteString(baseAddr, s, maxLen) ==
    LET len == Min(Len(s), maxLen) IN
    <<  <<baseAddr, len % 256>>  >>
    \o [i \in 1..len |-> <<baseAddr + i, s[i]>>]
    \o [i \in 1..(maxLen - len) |-> <<baseAddr + len + i, 0>>]

eepromWriteU16(addr, v) ==
    << <<addr, v % 256>>, <<addr + 1, (v \div 256) % 256>> >>

eepromWriteU32(addr, v) ==
    << <<addr, v % 256>>, <<addr + 1, (v \div 256) % 256>>,
       <<addr + 2, (v \div 65536) % 256>>, <<addr + 3, (v \div 16777216) % 256>> >>

B2N(b) == IF b THEN 1 ELSE 0

\* variant: the bits of showSeconds and imperial change places
packFlags_swapped(cfg) ==
    B2N(cfg.timezone_manual) + 2 * B2N(cfg.imperial) + 4 * B2N(cfg.showSeconds)
    + 8 * B2N(cfg.variableContrast) + 16 * B2N(cfg.contrastFollowSun)

packFlags(cfg) ==
    B2N(cfg.timezone_manual) + 2 * B2N(cfg.showSeconds) + 4 * B2N(cfg.imperial)
    + 8 * B2N(cfg.variableContrast) + 16 * B2N(cfg.contrastFollowSun)

writeSignature ==
    << <<ADDR_SIGNATURE, CHAR_C>>, <<ADDR_SIGNATURE + 1, CHAR_F>>,
       <<ADDR_SIGNATURE + 2, CHAR_G>>, <<ADDR_SIGNATURE + 3, DEVICE_SIGNATURE>> >>

\* the writes of saveSettings() before the signature
writeFields(cfg) ==
    eepromWriteString(ADDR_SSID, cfg.wifiSSID, MAX_SSID)
    \o eepromWriteString(ADDR_PASS, cfg.wifiPass, MAX_PASS)
    \o eepromWriteString(ADDR_CITY, cfg.city, MAX_CITY)
    \o eepromWriteString(ADDR_TZ, cfg.timezone, MAX_TZ)
    \o << <<ADDR_VARIABLES, packFlags(cfg)>> >>
    \o << <<ADDR_VARIABLES + 1, cfg.dayContrast>> >>
    \o << <<ADDR_VARIABLES + 2, cfg.nightContrast>> >>
    \o eepromWriteU16(ADDR_VARIABLES + 3, cfg.dawnDuskDuration)
    \o eepromWriteU32(ADDR_VARIABLES + 5, cfg.sunRise)
    \o eepromWriteU32(ADDR_VARIABLES + 9, cfg.sunSet)

saveSettingsWrites(cfg) == writeFields(cfg) \o writeSignature

\* EEPROM.write: one byte; an address outside the store is ignored
eepromWrite(mem, w) ==
    IF w[1] \in Addr THEN [mem EXCEPT ![w[1]] = w[2]] ELSE mem

\* the store after writes lo..hi of ws, in order (the first half is computed
\* before the second is entered)
RECURSIVE ApplyRange(_, _, _, _)
ApplyRange(mem, ws, lo, hi) ==
    IF lo > hi THEN mem
    ELSE IF lo = hi THEN eepromWrite(mem, ws[lo])
    ELSE LET mid  == (lo + hi) \div 2
             left == ApplyRange(mem, ws, lo, mid)
         IN  IF left[0] \in Byte THEN ApplyRange(left, ws, mid + 1, hi) ELSE left

\* the store after the first n writes of ws
ApplyWrites(mem, ws, n) == ApplyRange(mem, ws, 1, n)

\* saveSettings(): the store after the whole call
saveSettings(mem, cfg) ==
    LET ws == saveSettingsWrites(cfg) IN ApplyWrites(mem, ws, Len(ws))

\* saveSettings() of the older firmware variant (schema version '1')
oldSaveSettingsWrites(cfg) ==
    eepromWriteString(ADDR_SSID, cfg.wifiSSID, MAX_SSID)
    \o eepromWriteString(ADDR_PASS, cfg.wifiPass, MAX_PASS)
    \o eepromWriteString(ADDR_CITY, cfg.city, MAX_CITY)
    \o eepromWriteString(ADDR_TZ, cfg.timezone, MAX_TZ)
    \o << <<ADDR_VARIABLES, B2N(cfg.timezone_manual) + 2 * B2N(cfg.showSeconds)
                            + 4 * B2N(cfg.imperial)>> >>
    \o << <<ADDR_VARIABLES + 1, 0>>, <<ADDR_VARIABLES + 2, 0>>, <<ADDR_VARIABLES + 3, 0>> >>
    \o << <<ADDR_SIGNATURE, CHAR_C>>, <<ADDR_SIGNATURE + 1, CHAR_F>>,
          <<ADDR_SIGNATURE + 2, CHAR_G>>, <<ADDR_SIGNATURE + 3, OLD_DEVICE_SIGNATURE>> >>

(***************************************************************************)
(* Arduino String operations used by getWeather.  Indices are 0-based as   *)
(* in the code; text is a sequence of one-character strings.               *)
(***************************************************************************)
RETENTION_MS == 5400000     \* 90 minutes

SetMin(S) == CHOOSE x \in S : \A y \in S : x <= y

\* String::indexOf(ch, fromIndex): -1 when fromIndex is at or past the end
indexOf(s, ch, from) ==
    IF from < 0 \/ from >= Len(s) THEN -1
    ELSE LET hits == {i \in from..(Len(s) - 1) : s[i + 1] = ch}
         IN  IF hits = {} THEN -1 ELSE SetMin(hits)

\* an int passed as unsigned int: a negative value lies above every length
Unsigned(x) == IF x < 0 THEN 2147483647 + x ELSE x

\* String::substring(left, right), both unsigned
substring(s, left, right) ==
    LET l0 == Unsigned(left)
        r0 == Unsigned(right)
        l  == IF l0 > r0 THEN r0 ELSE l0
        r1 == IF l0 > r0 THEN l0 ELSE r0
        r  == IF r1 > Len(s) THEN Len(s) ELSE r1
    IN  IF l >= Len(s) THEN <<>> ELSE SubSeq(s, l + 1, r)

\* String::substring(beginIndex)
substringFrom(s, left) == substring(s, left, Len(s))

isspace(c) == c \in {" ", "\t", "\n", "\r"}

\* String::trim()
RECURSIVE trim(_)
trim(s) ==
    IF s = <<>> THEN s
    ELSE IF isspace(Head(s)) THEN trim(Tail(s))
    ELSE IF isspace(s[Len(s)]) THEN trim(SubSeq(s, 1, Len(s) - 1))
    ELSE s

\* line.replace("\r", "")
IsNotCR(c) == c # "\r"
removeCR(s) == SelectSeq(s, IsNotCR)

cleanLine(s) == trim(removeCR(s))

\* the loop over the newline-terminated lines: the line taken and where the
\* scan stopped
RECURSIVE scanLines(_, _)
scanLines(response, from) ==
    LET to == indexOf(response, "\n", from) IN
    IF to = -1 THEN [result |-> <<>>, from |-> from]
    ELSE LET line == cleanLine(substring(response, from, to)) IN
         IF indexOf(line, "|", 0) # -1
         THEN [result |-> line, from |-> from]
         ELSE scanLines(response, to + 1)

\* variant: the text after the last newline is never looked at
extractLine_noFallback(response) == scanLines(response, 0).result

\* the candidate line of a response; empty when there is none
extractLine(response) ==
    LET scan == scanLines(response, 0) IN
    IF Len(scan.result) = 0 /\ scan.from < Len(response)
    THEN LET line == cleanLine(substringFrom(response, scan.from)) IN
         IF indexOf(line, "|", 0) # -1 THEN line ELSE <<>>
    ELSE scan.result

NA == <<"N", "/", "A">>

(***************************************************************************)
(* The weather_* globals at reset.                                         *)
(***************************************************************************)
WeatherGlobals ==
    [temp |-> NA, cond |-> <<>>, hum |-> <<>>, wind |-> <<>>, press |-> <<>>,
     lastSuccessfulUpdate |-> 0,
     sundawn |-> <<"0", "7", ":", "0", "0">>,
     sunrise |-> <<"0", "7", ":", "3", "0">>,
     sunset  |-> <<"1", "9", ":", "0", "0">>,
     sundusk |-> <<"1", "9", ":", "3", "0">>]

\* hex[n] of "0123456789ABCDEF"
hexDigit(n) == IF n < 10 THEN 48 + n ELSE 55 + n

\* unreserved per RFC 3986: ALPHA / DIGIT / "-" / "." / "_" / "~"
isUnreserved(c) ==
    \/ c >= 65 /\ c <= 90
    \/ c >= 97 /\ c <= 122
    \/ c >= 48 /\ c <= 57
    \/ c \in {45, 46, 95, 126}

\* variant: a space is written as '+'
encodeByte_plus(c) ==
    IF isUnreserved(c) THEN <<c>>
    ELSE IF c = 32 THEN <<43>>
    ELSE <<37, hexDigit((c \div 16) % 16), hexDigit(c % 16)>>

\* what urlEncode() appends for one byte of the city
encodeByte(c) ==
    IF isUnreserved(c) THEN <<c>>
    ELSE IF c = 32 THEN <<37, 50, 48>>
    ELSE <<37, hexDigit((c \div 16) % 16), hexDigit(c % 16)>>

RECURSIVE urlEncode(_)
urlEncode(s) == IF s = <<>> THEN <<>> ELSE encodeByte(Head(s)) \o urlEncode(Tail(s))

\* variant: a snapshot never received is not told apart
getWeatherExpired_neverUnchecked(wx, t) == wx.lastSuccessfulUpdate + RETENTION_MS > t

\* variant: the age of the snapshot is taken modulo twice the retention
getWeatherExpired_ageWraps(wx, t) ==
    IF wx.lastSuccessfulUpdate = 0 THEN FALSE
    ELSE (t - wx.lastSuccessfulUpdate) % (2 * RETENTION_MS) < RETENTION_MS

\* variant: the snapshot is still kept at exactly 90 minutes
getWeatherExpired_inclusive(wx, t) ==
    IF wx.lastSuccessfulUpdate = 0 THEN FALSE
    ELSE wx.lastSuccessfulUpdate + RETENTION_MS >= t

\* getWeatherExpired(): called on every failed refresh
getWeatherExpired(wx, t) ==
    IF wx.lastSuccessfulUpdate = 0 THEN FALSE
    ELSE wx.lastSuccessfulUpdate + RETENTION_MS > t

\* the query asks for the sun timings
sunDataRequested(cfg, counter) ==
    counter % 4 = 0 /\ cfg.variableContrast /\ cfg.contrastFollowSun

\* variant: the condition is not trimmed
parseFields_rawCond(result, sunDataAvailable) ==
    LET idx1 == indexOf(result, "|", 0)
        idx2 == indexOf(result, "|", idx1 + 1)
        idx3 == indexOf(result, "|", idx2 + 1)
        idx4 == indexOf(result, "|", idx3 + 1)
        idx5 == indexOf(result, "|", idx4 + 1)
        idx6 == indexOf(result, "|", idx5 + 1)
        idx7 == indexOf(result, "|", idx6 + 1)
        idx8 == indexOf(result, "|", idx7 + 1)
        windStr  == substring(result, idx3 + 1, idx4)
        pressStr == IF sunDataAvailable
                    THEN substring(result, idx4 + 1, idx5)
                    ELSE substringFrom(result, idx4 + 1)
    IN [found |-> ~(idx1 < 0 \/ idx2 < 0 \/ idx3 < 0 \/ idx4 < 0),
        temp  |-> trim(substring(result, 0, idx1)),
        cond  |-> substring(result, idx1 + 1, idx2),
        hum   |-> trim(substring(result, idx2 + 1, idx3)),
        wind  |-> IF Len(windStr) = 0 THEN NA ELSE windStr,
        press |-> IF Len(pressStr) = 0 THEN NA ELSE pressStr,
        sundawn |-> IF sunDataAvailable THEN substring(result, idx5 + 1, idx6) ELSE <<>>,
        sunrise |-> IF sunDataAvailable THEN substring(result, idx6 + 1, idx7) ELSE <<>>,
        sunset  |-> IF sunDataAvailable THEN substring(result, idx7 + 1, idx8) ELSE <<>>,
        sundusk |-> IF sunDataAvailable THEN substringFrom(result, idx8 + 1) ELSE <<>>]

\* the fields cut out of the candidate line
parseFields(result, sunDataAvailable) ==
    LET idx1 == indexOf(result, "|", 0)
        idx2 == indexOf(result, "|", idx1 + 1)
        idx3 == indexOf(result, "|", idx2 + 1)
        idx4 == indexOf(result, "|", idx3 + 1)
        idx5 == indexOf(result, "|", idx4 + 1)
        idx6 == indexOf(result, "|", idx5 + 1)
        idx7 == indexOf(result, "|", idx6 + 1)
        idx8 == indexOf(result, "|", idx7 + 1)
        windStr  == substring(result, idx3 + 1, idx4)
        pressStr == IF sunDataAvailable
                    THEN substring(result, idx4 + 1, idx5)
                    ELSE substringFrom(result, idx4 + 1)
    IN [found |-> ~(idx1 < 0 \/ idx2 < 0 \/ idx3 < 0 \/ idx4 < 0),
        temp  |-> trim(substring(result, 0, idx1)),
        cond  |-> trim(substring(result, idx1 + 1, idx2)),
        hum   |-> trim(substring(result, idx2 + 1, idx3)),
        wind  |-> IF Len(windStr) = 0 THEN NA ELSE windStr,
        press |-> IF Len(pressStr) = 0 THEN NA ELSE pressStr,
        sundawn |-> IF sunDataAvailable THEN substring(result, idx5 + 1, idx6) ELSE <<>>,
        sunrise |-> IF sunDataAvailable THEN substring(result, idx6 + 1, idx7) ELSE <<>>,
        sunset  |-> IF sunDataAvailable THEN substring(result, idx7 + 1, idx8) ELSE <<>>,
        sundusk |-> IF sunDataAvailable THEN substringFrom(result, idx8 + 1) ELSE <<>>]

\* variant: the sun strings are stored on every success
storeWeather_alwaysSun(wx, f, sunDataAvailable, t) ==
    [temp |-> f.temp, cond |-> f.cond, hum |-> f.hum, wind |-> f.wind, press |-> f.press,
     sundawn |-> f.sundawn, sunrise |-> f.sunrise,
     sunset  |-> f.sunset, sundusk |-> f.sundusk,
     lastSuccessfulUpdate |-> t]

\* the weather_* globals after a successful parse at time t
storeWeather(wx, f, sunDataAvailable, t) ==
    [temp |-> f.temp, cond |-> f.cond, hum |-> f.hum, wind |-> f.wind, press |-> f.press,
     sundawn |-> IF sunDataAvailable THEN f.sundawn ELSE wx.sundawn,
     sunrise |-> IF sunDataAvailable THEN f.sunrise ELSE wx.sunrise,
     sunset  |-> IF sunDataAvailable THEN f.sunset  ELSE wx.sunset,
     sundusk |-> IF sunDataAvailable THEN f.sundusk ELSE wx.sundusk,
     lastSuccessfulUpdate |-> t]

\* variant: the fields are stored before temperature and condition are checked
getWeather_storeFirst(cfg, wx, counter, net, response, t) ==
    LET ext    == net # "wifi_down" /\ sunDataRequested(cfg, counter)
        cnt    == IF ext THEN counter + 1 ELSE counter
        enc    == IF net = "wifi_down" THEN <<>> ELSE urlEncode(cfg.city)
        result == extractLine(response)
        f      == parseFields(result, ext)
        failed(why) == [ret |-> getWeatherExpired(wx, t), weather |-> wx,
                        counter |-> cnt, ext |-> ext, outcome |-> why,
                        cityEnc |-> enc]
    IN  IF net = "wifi_down" THEN failed("wifi_down")
        ELSE IF net = "connect_failed" THEN failed("connect_failed")
        ELSE IF Len(result) = 0 THEN failed("no_line")
        ELSE IF ~f.found THEN failed("few_delimiters")
        ELSE IF f.temp = <<>> \/ f.cond = <<>>
             THEN [failed("empty_field") EXCEPT !.weather = storeWeather(wx, f, ext, wx.lastSuccessfulUpdate)]
        ELSE [ret |-> TRUE, weather |-> storeWeather(wx, f, ext, t),
              counter |-> cnt, ext |-> ext, outcome |-> "ok", cityEnc |-> enc]

\* getWeather(): what one call does.  net is what the transport did:
\* "wifi_down", "connect_failed" or "response" (then response is the text read).
\* t is millis() during the call.
getWeather(cfg, wx, counter, net, response, t) ==
    LET ext    == net # "wifi_down" /\ sunDataRequested(cfg, counter)
        cnt    == IF ext THEN counter + 1 ELSE counter
        enc    == IF net = "wifi_down" THEN <<>> ELSE urlEncode(cfg.city)
        result == extractLine(response)
        f      == parseFields(result, ext)
        failed(why) == [ret |-> getWeatherExpired(wx, t), weather |-> wx,
                        counter |-> cnt, ext |-> ext, outcome |-> why,
                        cityEnc |-> enc]
    IN  IF net = "wifi_down" THEN failed("wifi_down")
        ELSE IF net = "connect_failed" THEN failed("connect_failed")
        ELSE IF Len(result) = 0 THEN failed("no_line")
        ELSE IF ~f.found THEN failed("few_delimiters")
        ELSE IF f.temp = <<>> \/ f.cond = <<>> THEN failed("empty_field")
        ELSE [ret |-> TRUE, weather |-> storeWeather(wx, f, ext, t),
              counter |-> cnt, ext |-> ext, outcome |-> "ok", cityEnc |-> enc]

(***************************************************************************)
(* Inputs: configuration records and storage contents.                     *)
(***************************************************************************)
\* bytes the enumerated short strings are made of: NUL, 'A', 'B'
Alphabet == {0, 65, 66}

ShortStrs == UNION {[1..n -> Alphabet] : n \in 0..MaxStrLen}

RecA ==
    [wifiSSID |-> <<65, 66>>, wifiPass |-> <<66>>, city |-> <<65>>,
     showSeconds |-> TRUE, imperial |-> FALSE,
     timezone |-> <<66, 65>>, timezone_manual |-> TRUE,
     variableContrast |-> TRUE, contrastFollowSun |-> FALSE,
     dayContrast |-> 200, nightContrast |-> 10,
     dawnDuskDuration |-> 45, sunRise |-> 25200, sunSet |-> 75600]

\* every field at the upper end of its documented range
RecB ==
    [wifiSSID |-> Fill(MAX_SSID, 66), wifiPass |-> Fill(MAX_PASS, 65),
     city |-> Fill(MAX_CITY, 66),
     showSeconds |-> FALSE, imperial |-> TRUE,
     timezone |-> Fill(MAX_TZ, 65), timezone_manual |-> FALSE,
     variableContrast |-> TRUE, contrastFollowSun |-> TRUE,
     dayContrast |-> 255, nightContrast |-> 255,
     dawnDuskDuration |-> 240, sunRise |-> 86399, sunSet |-> 86399]

\* records within the documented bounds: RecA with one field varied, and RecB
Records ==
    {RecA, RecB}
    \cup {[RecA EXCEPT !.wifiSSID = s] : s \in ShortStrs}
    \cup {[RecA EXCEPT !.wifiPass = s] : s \in ShortStrs}
    \cup {[RecA EXCEPT !.city = s] : s \in ShortStrs}
    \cup {[RecA EXCEPT !.timezone = s] : s \in ShortStrs}
    \cup {[RecA EXCEPT !.showSeconds = b, !.imperial = ~b, !.timezone_manual = b,
                       !.variableContrast = ~b, !.contrastFollowSun = b] : b \in BOOLEAN}
    \cup {[RecA EXCEPT !.dayContrast = v, !.nightContrast = 255 - v] : v \in {0, 255}}
    \cup {[RecA EXCEPT !.dawnDuskDuration = v] : v \in {0, 240}}
    \cup {[RecA EXCEPT !.sunRise = v, !.sunSet = 86399 - v] : v \in {0, 65536, 86399}}

\* a store holding byte c at every address, as an explicit table
Uniform(c) == [a \in Addr |-> c] @@ <<>>

Blank  == Uniform(255)     \* erased flash
Zeroed == Uniform(0)

\* arbitrary bytes carrying a valid signature
SignedGarbage(c) ==
    ApplyWrites(Uniform(c), writeSignature, Len(writeSignature))

\* a valid record with one signature byte damaged
Corrupted(k) == [saveSettings(Blank, RecB) EXCEPT ![ADDR_SIGNATURE + k] = 0]

PriorStorage ==
    {Blank, Zeroed, saveSettings(Blank, RecA), saveSettings(Zeroed, RecB),
     ApplyWrites(Blank, oldSaveSettingsWrites(RecB), Len(oldSaveSettingsWrites(RecB)))}
    \cup {SignedGarbage(c) : c \in {0, 200, 255}}
    \cup {Corrupted(k) : k \in 0..3}

\* before the first call
NoCall ==
    [net |-> "none", response |-> <<>>, ext |-> FALSE, outcome |-> "none", cityEnc |-> <<>>]

WxIdle ==
    /\ weather = WeatherGlobals
    /\ weather_valid = FALSE
    /\ getWeatherCounter = 0
    /\ now = 0
    /\ calls = 0
    /\ sinceExt = 0
    /\ call = NoCall

SysIdle ==
    /\ wifiMode = "STA"
    /\ rebootIn10mins = FALSE
    /\ httpStatus = 0
    /\ boots = 0

DispIdle ==
    /\ tod = -1
    /\ brightness = 0
    /\ lastScreenSwitch = 0
    /\ showWeatherScreen = FALSE
    /\ lastWeatherFetch = 0
    /\ screen = "none"

CfgIdle ==
    /\ eeprom = Blank
    /\ phase = "run"
    /\ saved = ConfigGlobals
    /\ prior = Blank
    /\ savePos = 0

(***************************************************************************)
(* SpecStore: the Config Store's save / load pair on its own.              *)
(***************************************************************************)
StoreInit ==
    /\ eeprom \in PriorStorage
    /\ config \in Records
    /\ phase = "init"
    /\ saved = config
    /\ prior = eeprom
    /\ savePos = 0
    /\ WxIdle
    /\ SysIdle
    /\ DispIdle

StoreSave ==
    /\ phase = "init"
    /\ eeprom' = saveSettings(eeprom, config)
    /\ saved' = config
    /\ prior' = eeprom
    /\ phase' = "saved"
    /\ UNCHANGED <<config, savePos, wxVars, sysVars, dispVars>>

StoreLoad ==
    /\ phase \in {"init", "saved"}
    /\ config' = loadSettings(eeprom, config)
    /\ phase' = IF phase = "saved" THEN "roundtrip" ELSE "loaded"
    /\ UNCHANGED <<eeprom, saved, prior, savePos, wxVars, sysVars, dispVars>>

StoreNext == StoreSave \/ StoreLoad

SpecStore == StoreInit /\ [][StoreNext]_vars

NoNul(s) == \A i \in 1..Len(s) : s[i] # 0

\* C1 as stated: load(save(R)) = R for every record within the documented bounds.
C1_RoundTripAll == phase = "roundtrip" => config = saved

\* C1 amended: load(save(R)) = R for every record within the documented bounds
\* whose timezone is not empty and whose strings hold no NUL byte, whatever the
\* storage held before.
C1_RoundTrip ==
    (/\ phase = "roundtrip"
     /\ saved.timezone # <<>>
     /\ NoNul(saved.wifiSSID) /\ NoNul(saved.wifiPass)
     /\ NoNul(saved.city) /\ NoNul(saved.timezone))
    => config = saved

\* a record shorter than the one stored before it has made the round trip
C1_Witness ==
    /\ phase = "roundtrip"
    /\ prior = saveSettings(Zeroed, RecB)
    /\ saved = [RecA EXCEPT !.city = <<66, 66>>]
    /\ config = saved

(***************************************************************************)
(* Inputs of the fetcher: what the transport delivers and when.            *)
(***************************************************************************)
LineExample ==
    <<"+", "2", "1", "|", "S", "u", "n", "n", "y", "|", "4", "5", "%", "|",
      "1", "1", "k", "m", "/", "h", "|", "1", "0", "1", "5", "h", "P", "a">>
LineBase     == <<"t", "|", "c", "|", "h", "|", "w", "|", "p">>
LineOther    == <<"u", "|", "d", "|", "i", "|", "x", "|", "q">>
LineSpaced   == <<" ", "t", " ", "|", " ", "c", " ", "|", " ", "h", " ", "|",
                  " ", "w", " ", "|", " ", "p", " ">>
LineShort    == <<"t", "|", "c", "|", "h">>
LineNoTemp   == <<"|", "c", "|", "h", "|", "w", "|", "p">>
LineNoCond   == <<"+", "2", "1", "|", "|", "4", "5", "%", "|", "1", "1", "|",
                  "1", "0", "1", "5">>
LineBlankCond == <<"t", "|", " ", "|", "h", "|", "w", "|", "p">>
LineNoHum    == <<"t", "|", "c", "|", "|", "w", "|", "p">>
LineNoWindPress == <<"t", "|", "c", "|", "h", "|", "|">>
LineBlankWind == <<"t", "|", "c", "|", "h", "|", " ", "|", "p">>
LineSun      == LineBase \o <<"|", "1", "|", "2", "|", "3", "|", "4">>
LineSunPart  == LineBase \o <<"|", "1", "|", "2">>

LF   == <<"\n">>
CRLF == <<"\r", "\n">>
HttpHead == <<"H">> \o CRLF \o CRLF

Responses ==
    { <<>>,
      HttpHead,
      LineExample \o LF,
      HttpHead \o LineBase \o CRLF,
      LineSpaced \o LF,
      HttpHead \o LineOther,
      LineShort \o LF,
      LineNoTemp \o LF,
      LineNoCond,
      LineBlankCond \o LF,
      LineNoHum \o LF,
      LineNoWindPress \o LF,
      LineBlankWind \o LF,
      HttpHead \o LineSun \o CRLF,
      LineSunPart \o LF,
      LineShort \o LF \o LineBase \o LF,
      LineBase \o LF \o LineOther \o LF }

\* time that passes between two calls
Deltas == {1, RETENTION_MS - 1}

(***************************************************************************)
(* SpecWx: the fetcher called again and again with the configuration fixed. *)
(***************************************************************************)
WxInit ==
    /\ CfgIdle
    /\ config \in {[ConfigGlobals EXCEPT !.variableContrast = v, !.contrastFollowSun = f] :
                      v \in BOOLEAN, f \in BOOLEAN}
    /\ WxIdle
    /\ SysIdle
    /\ DispIdle

\* weather_valid = getWeather(), with g what the call did, d after the call
\* before it
CallEffects(g, net, response, d) ==
    /\ now' = now + d
    /\ calls' = calls + 1
    /\ weather' = g.weather
    /\ weather_valid' = g.ret
    /\ getWeatherCounter' = g.counter
    /\ sinceExt' = IF net = "wifi_down" THEN sinceExt
                   ELSE IF g.ext THEN 0 ELSE sinceExt + 1
    /\ call' = [net |-> net, response |-> response, ext |-> g.ext, outcome |-> g.outcome,
                cityEnc |-> g.cityEnc]

RefreshDo(g, net, response, d, limit) ==
    /\ calls < limit
    /\ CallEffects(g, net, response, d)
    /\ UNCHANGED <<cfgVars, sysVars, dispVars>>

Refresh(net, response, d, limit) ==
    RefreshDo(getWeather(config, weather, getWeatherCounter, net, response, now + d),
              net, response, d, limit)

RefreshWifiDown      == \E d \in Deltas : Refresh("wifi_down", <<>>, d, MaxCalls)
RefreshConnectFailed == \E d \in Deltas : Refresh("connect_failed", <<>>, d, MaxCalls)
RefreshResponse      ==
    \E d \in Deltas : \E r \in Responses : Refresh("response", r, d, MaxCalls)

WxNext == RefreshWifiDown \/ RefreshConnectFailed \/ RefreshResponse

SpecWx == WxInit /\ [][WxNext]_vars


(***************************************************************************)
(* The response, read independently of the code's index arithmetic.        *)
(***************************************************************************)
White == {" ", "\t", "\n", "\r"}

SetMax(S) == CHOOSE x \in S : \A y \in S : x >= y

\* s without its leading and trailing whitespace
Strip(s) ==
    LET keep == {i \in 1..Len(s) : s[i] \notin White} IN
    IF keep = {} THEN <<>> ELSE SubSeq(s, SetMin(keep), SetMax(keep))

\* the pieces of s between the occurrences of sep
RECURSIVE SplitOn(_, _)
SplitOn(s, sep) ==
    LET at == {i \in 1..Len(s) : s[i] = sep} IN
    IF at = {} THEN <<s>>
    ELSE <<SubSeq(s, 1, SetMin(at) - 1)>> \o SplitOn(SubSeq(s, SetMin(at) + 1, Len(s)), sep)

Pipes(line) == Cardinality({i \in 1..Len(line) : line[i] = "|"})

HasPipe(line) == \E i \in 1..Len(line) : line[i] = "|"

\* the first line of the text that holds a '|', without carriage returns and
\* surrounding whitespace; empty when no line holds one
CandidateOf(response) ==
    LET lines == SplitOn(response, "\n")
        hits  == {i \in 1..Len(lines) : HasPipe(lines[i])}
    IN  IF hits = {} THEN <<>> ELSE Strip(removeCR(lines[SetMin(hits)]))

\* segment k of a line, stripped; empty when the line has fewer segments
Seg(line, k) ==
    LET segs == SplitOn(line, "|") IN
    IF k <= Len(segs) THEN Strip(segs[k]) ELSE <<>>

Failed == {"wifi_down", "connect_failed", "no_line", "few_delimiters", "empty_field"}

Sun(wx) == <<wx.sundawn, wx.sunrise, wx.sunset, wx.sundusk>>

Called == calls' = calls + 1

LineOfCall == CandidateOf(call.response)

(***************************************************************************)
(* Claims about the fetcher (SpecWx).                                      *)
(***************************************************************************)
\* C4: after every failed refresh weather_valid is true exactly when some
\* refresh succeeded before and less than 90 minutes have passed since.
C4_RetentionWindow ==
    call.outcome \in Failed =>
        (weather_valid <=> (/\ weather.lastSuccessfulUpdate # 0
                            /\ now - weather.lastSuccessfulUpdate < RETENTION_MS))

\* a failure exactly 90 minutes after the last success: invalid
C4_Witness ==
    /\ call.outcome = "empty_field"
    /\ weather.lastSuccessfulUpdate # 0
    /\ now - weather.lastSuccessfulUpdate = RETENTION_MS
    /\ ~weather_valid

\* C5: a failed refresh changes no field of the snapshot.
C5_FailureKeepsSnapshot ==
    [][(Called /\ call'.outcome \in Failed) => weather' = weather]_vars

\* a parse failure after a success
C5_Witness ==
    /\ call.outcome \in {"few_delimiters", "empty_field", "no_line"}
    /\ weather.lastSuccessfulUpdate # 0
    /\ weather.temp = <<"t">>

\* C6: a refresh succeeds, and then stores the parsed fields and stamps the
\* time, exactly when a response arrived, it has a line with a '|', that
\* line has four '|' or more and its first two segments are not blank.
C6_SuccessIff ==
    call.net # "none" =>
        /\ (weather_valid /\ weather.lastSuccessfulUpdate = now) <=>
              (/\ call.net = "response"
               /\ LineOfCall # <<>>
               /\ Pipes(LineOfCall) >= 4
               /\ Seg(LineOfCall, 1) # <<>>
               /\ Seg(LineOfCall, 2) # <<>>)
        /\ weather.lastSuccessfulUpdate = now =>
              (/\ call.outcome = "ok"
               /\ weather.temp = Seg(LineOfCall, 1)
               /\ weather.cond = Seg(LineOfCall, 2)
               /\ weather.hum = Seg(LineOfCall, 3))

\* a success with an empty humidity
C6_Witness ==
    /\ call.outcome = "ok"
    /\ call.response = LineNoHum \o LF
    /\ weather.hum = <<>>
    /\ weather.lastSuccessfulUpdate = now

\* wind and pressure as the specification describes them: stripped, and
\* "N/A" when nothing is left
OrNA(s) == IF s = <<>> THEN NA ELSE s

\* C7: a refresh without sun data whose line has five segments, the first
\* two not blank, stores the five stripped segments and is valid.
C7_FiveFields ==
    (/\ call.net = "response"
     /\ ~call.ext
     /\ Pipes(LineOfCall) = 4
     /\ Seg(LineOfCall, 1) # <<>>
     /\ Seg(LineOfCall, 2) # <<>>)
    => /\ weather_valid
       /\ weather.temp = Seg(LineOfCall, 1)
       /\ weather.cond = Seg(LineOfCall, 2)
       /\ weather.hum = Seg(LineOfCall, 3)
       /\ weather.wind = OrNA(Seg(LineOfCall, 4))
       /\ weather.press = OrNA(Seg(LineOfCall, 5))

\* C9: a successful refresh that did not ask for sun data leaves the four
\* sun-event strings as they were.
C9_SunKeptWithoutRequest ==
    [][(Called /\ call'.outcome = "ok" /\ ~call'.ext) => Sun(weather') = Sun(weather)]_vars

\* sun data received earlier is still there after a later plain success
C9_Witness ==
    /\ call.outcome = "ok"
    /\ ~call.ext
    /\ weather.temp = <<"u">>
    /\ Sun(weather) = << <<"1">>, <<"2">>, <<"3">>, <<"4">> >>

\* C10: a refresh that asked for sun data and got a line with only the five
\* base fields succeeds with the fifth segment as pressure and leaves the
\* sun-event strings as they were.
C10_SunOnlyWhenPresent ==
    [][(Called /\ call'.ext /\ call'.outcome = "ok" /\ Pipes(CandidateOf(call'.response)) = 4)
        => (/\ weather'.press = OrNA(SplitOn(CandidateOf(call'.response), "|")[5])
            /\ Sun(weather') = Sun(weather))]_vars


(***************************************************************************)
(* SpecCadence: a long run of refreshes, to watch which of them ask for    *)
(* the sun timings.                                                        *)
(***************************************************************************)
CadenceResponses == {HttpHead \o LineSun \o CRLF, LineBase \o LF, LineShort \o LF}

CadenceWifiDown == Refresh("wifi_down", <<>>, 1, MaxCadence)
CadenceConnectFailed == Refresh("connect_failed", <<>>, 1, MaxCadence)
CadenceResponse ==
    \E d \in Deltas : \E r \in CadenceResponses : Refresh("response", r, d, MaxCadence)

CadenceNext == CadenceWifiDown \/ CadenceConnectFailed \/ CadenceResponse

SpecCadence == WxInit /\ [][CadenceNext]_vars

\* C8: while variable contrast and contrast-follows-sun are both on, the sun
\* timings are asked for again at the latest with every fourth query: never
\* are four queries in a row built without them.
C8_EveryFourth ==
    (config.variableContrast /\ config.contrastFollowSun) => sinceExt <= 3

(***************************************************************************)
(* SpecPower: saveSettings one EEPROM.write at a time, with the power      *)
(* failing between any two writes.                                         *)
(***************************************************************************)
PowerRecords == {RecA, RecB, [RecA EXCEPT !.city = <<66, 66>>]}

PowerPrior == {Blank, Zeroed, saveSettings(Blank, RecA), saveSettings(Zeroed, RecB)}

PowerInit ==
    /\ eeprom \in PowerPrior
    /\ config \in PowerRecords
    /\ phase = "saving"
    /\ saved = config
    /\ prior = eeprom
    /\ savePos = 0
    /\ WxIdle
    /\ SysIdle
    /\ DispIdle

\* the next EEPROM.write of saveSettings
WriteStep ==
    LET ws == saveSettingsWrites(config) IN
    /\ phase = "saving"
    /\ savePos < Len(ws)
    /\ eeprom' = eepromWrite(eeprom, ws[savePos + 1])
    /\ savePos' = savePos + 1
    /\ phase' = IF savePos + 1 = Len(ws) THEN "saved" ELSE "saving"
    /\ UNCHANGED <<config, saved, prior, wxVars, sysVars, dispVars>>

\* the power fails: the bytes written so far stay, the globals are lost
PowerLoss ==
    /\ phase = "saving"
    /\ phase' = "off"
    /\ config' = ConfigGlobals
    /\ UNCHANGED <<eeprom, saved, prior, savePos, wxVars, sysVars, dispVars>>

\* the next boot reads the store as setup() does
PowerUp ==
    /\ phase = "off"
    /\ phase' = "booted"
    /\ config' = IF sigOk(eeprom) THEN loadSettings(eeprom, config) ELSE config
    /\ wifiMode' = IF sigOk(eeprom) THEN "STA" ELSE "AP"
    /\ UNCHANGED <<eeprom, saved, prior, savePos, wxVars, rebootIn10mins, httpStatus, boots, dispVars>>

PowerNext == WriteStep \/ PowerLoss \/ PowerUp

SpecPower == PowerInit /\ [][PowerNext]_vars

\* the addresses of the declared field slots
FieldAddrs ==
    (ADDR_SSID..(ADDR_SSID + MAX_SSID)) \cup (ADDR_PASS..(ADDR_PASS + MAX_PASS))
    \cup (ADDR_CITY..(ADDR_CITY + MAX_CITY)) \cup (ADDR_TZ..(ADDR_TZ + MAX_TZ))
    \cup (ADDR_VARIABLES..(ADDR_VARIABLES + 12))

SameFields(m1, m2) == \A a \in FieldAddrs : m1[a] = m2[a]

\* the field bytes are neither all those of before the save nor all the new ones
PartlyWritten ==
    /\ ~SameFields(eeprom, prior)
    /\ ~SameFields(eeprom, saveSettings(prior, saved))

IsDigit(c) == c >= 48 /\ c <= 57

\* LONG_MAX of the 32-bit long
LONG_MAX == 2147483647

\* value of the leading digits of s, continuing from acc; strtol stops at
\* LONG_MAX when the digits stand for more
RECURSIVE digitsValue(_, _)
digitsValue(s, acc) ==
    IF s = <<>> \/ ~IsDigit(Head(s)) THEN acc
    ELSE LET d == Head(s) - 48 IN
         IF acc > LONG_MAX \div 10 \/ (acc = LONG_MAX \div 10 /\ d > LONG_MAX % 10)
         THEN LONG_MAX
         ELSE digitsValue(Tail(s), 10 * acc + d)

\* String::toInt(): atol, i.e. leading blanks, an optional sign, digits
RECURSIVE toInt(_)
toInt(s) ==
    IF s = <<>> THEN 0
    ELSE IF Head(s) \in {32, 9, 10, 13} THEN toInt(Tail(s))
    ELSE IF Head(s) = 45 THEN 0 - digitsValue(Tail(s), 0)
    ELSE IF Head(s) = 43 THEN digitsValue(Tail(s), 0)
    ELSE digitsValue(s, 0)

\* variant: only the lower limit is enforced
clamp_lowOnly(v, lo, hi) == IF v < lo THEN lo ELSE v

clamp(v, lo, hi) == IF v < lo THEN lo ELSE IF v > hi THEN hi ELSE v

\* "MANUAL"
MANUAL == <<77, 65, 78, 85, 65, 76>>

\* variant: MANUAL is accepted with an empty manual string
handleConfigForm_emptyManual(form, cfg) ==
    IF Len(form.ssid) = 0 \/ Len(form.city) = 0 \/ Len(form.tz) = 0
    THEN [status |-> 400, config |-> cfg]
    ELSE [status |-> 200,
          config |->
            [cfg EXCEPT !.wifiSSID = form.ssid, !.wifiPass = form.pass, !.city = form.city,
                        !.timezone = IF form.tz = MANUAL THEN form.tz_manual ELSE form.tz,
                        !.timezone_manual = form.tz = MANUAL,
                        !.showSeconds = form.showseconds,
                        !.imperial = form.units = "imperial"]]

\* handleConfigForm() up to the assignment of the config_* globals: the HTTP
\* status it answers with and the values it assigns (on 400 nothing is assigned)
handleConfigForm(form, cfg) ==
    IF Len(form.ssid) = 0 \/ Len(form.city) = 0 \/ Len(form.tz) = 0
    THEN [status |-> 400, config |-> cfg]
    ELSE IF form.tz = MANUAL /\ Len(form.tz_manual) = 0
    THEN [status |-> 400, config |-> cfg]
    ELSE
      LET manual  == form.tz = MANUAL
          useForm == form.variableContrast
          useSun  == form.variableContrast /\ ~form.contrastFollowSun
          pick(str, old, lo, hi) ==
              IF Len(str) > 0 THEN clamp(toInt(str), lo, hi) ELSE old
      IN [status |-> 200,
          config |->
            [wifiSSID |-> form.ssid, wifiPass |-> form.pass, city |-> form.city,
             timezone |-> IF manual THEN form.tz_manual ELSE form.tz,
             timezone_manual |-> manual,
             showSeconds |-> form.showseconds,
             imperial |-> form.units = "imperial",
             variableContrast |-> form.variableContrast,
             contrastFollowSun |-> form.variableContrast /\ form.contrastFollowSun,
             dayContrast |-> IF useForm THEN pick(form.dayContrast, cfg.dayContrast, 0, 255)
                             ELSE cfg.dayContrast,
             nightContrast |-> IF useForm
                               THEN pick(form.nightContrast, cfg.nightContrast, 0, 255)
                               ELSE cfg.nightContrast,
             dawnDuskDuration |-> IF useSun
                                  THEN pick(form.dawnDusk, cfg.dawnDuskDuration, 0, 240)
                                  ELSE cfg.dawnDuskDuration,
             sunRise |-> IF useSun THEN pick(form.sunRise, cfg.sunRise, 0, 86399)
                         ELSE cfg.sunRise,
             sunSet |-> IF useSun THEN pick(form.sunSet, cfg.sunSet, 0, 86399)
                        ELSE cfg.sunSet]]

\* digits as bytes
D(n) == 48 + n

BaseForm ==
    [ssid |-> <<65>>, pass |-> <<66>>, city |-> <<65, 66>>,
     tz |-> TZ_UTC0, tz_manual |-> <<>>,
     showseconds |-> FALSE, units |-> "metric",
     variableContrast |-> TRUE, contrastFollowSun |-> FALSE,
     dayContrast |-> <<D(2), D(0), D(0)>>, nightContrast |-> <<D(5)>>,
     sunRise |-> <<D(3), D(6), D(0), D(0)>>,
     sunSet |-> <<D(8), D(0), D(0), D(0), D(0)>>,
     dawnDusk |-> <<D(6), D(0)>>]

Forms ==
    {BaseForm}
    \cup {[BaseForm EXCEPT !.ssid = s] : s \in {<<>>, Fill(MAX_SSID + 1, 66)}}
    \cup {[BaseForm EXCEPT !.city = <<>>], [BaseForm EXCEPT !.tz = <<>>]}
    \cup {[BaseForm EXCEPT !.tz = MANUAL, !.tz_manual = s] : s \in {<<>>, <<66>>}}
    \cup {[BaseForm EXCEPT !.showseconds = TRUE, !.units = "imperial",
                           !.contrastFollowSun = TRUE]}
    \cup {[BaseForm EXCEPT !.variableContrast = FALSE, !.contrastFollowSun = TRUE]}
    \cup {[BaseForm EXCEPT !.dayContrast = s, !.nightContrast = <<>>] :
              s \in {<<45, D(1)>>, <<D(3), D(0), D(0)>>, <<65>>}}
    \cup {[BaseForm EXCEPT !.dawnDusk = s] : s \in {<<>>, <<D(2), D(4), D(1)>>}}
    \cup {[BaseForm EXCEPT !.sunRise = <<D(8), D(6), D(4), D(0), D(0)>>,
                           !.sunSet = <<45, D(1)>>]}
    \cup {[BaseForm EXCEPT !.sunRise = <<45>> \o Fill(12, D(9)),
                           !.sunSet = Fill(12, D(9)),
                           !.dawnDusk = Fill(12, D(9))]}

(***************************************************************************)
(* SpecBoot: reset, setup(), the configuration portal, restart.            *)
(***************************************************************************)
BootResponses == {HttpHead \o LineBase \o CRLF, LineShort \o LF}

BootInit ==
    /\ eeprom \in PriorStorage
    /\ config = ConfigGlobals
    /\ phase = "reset"
    /\ saved = ConfigGlobals
    /\ prior = eeprom
    /\ savePos = 0
    /\ WxIdle
    /\ wifiMode = "OFF"
    /\ rebootIn10mins = FALSE
    /\ httpStatus = 0
    /\ boots = 0
    /\ DispIdle

\* setup() with the signature missing or the button held: the portal
SetupPortal(buttonPressed) ==
    LET ok  == sigOk(eeprom)
        cfg == IF ok THEN loadSettings(eeprom, config) ELSE config
    IN  /\ phase = "reset"
        /\ boots < MaxBoots
        /\ ~ok \/ buttonPressed
        /\ config' = cfg
        /\ wifiMode' = "AP"
        /\ CallEffects(getWeather(cfg, weather, getWeatherCounter, "wifi_down", <<>>, now + 1),
                       "wifi_down", <<>>, 1)
        /\ phase' = "running"
        /\ boots' = boots + 1
        /\ lastWeatherFetch' = now + 1
        /\ UNCHANGED <<eeprom, saved, prior, savePos, rebootIn10mins, httpStatus,
                       tod, brightness, lastScreenSwitch, showWeatherScreen, screen>>

WIFI_WAIT_MS == 30000 \* setup() waits this long for the WiFi to join

\* setup() with a valid signature, WiFi not joined within 30 seconds
SetupWifiFailed ==
    /\ phase = "reset"
    /\ boots < MaxBoots
    /\ sigOk(eeprom)
    /\ config' = loadSettings(eeprom, config)
    /\ wifiMode' = "AP"
    /\ rebootIn10mins' = TRUE
    /\ phase' = "running"
    /\ boots' = boots + 1
    /\ now' = now + WIFI_WAIT_MS
    /\ UNCHANGED <<eeprom, saved, prior, savePos, httpStatus, dispVars,
                   weather, weather_valid, getWeatherCounter, calls, sinceExt, call>>

\* setup() with a valid signature and WiFi joined: station mode, first fetch
SetupStation(net, response) ==
    LET cfg == loadSettings(eeprom, config) IN
    /\ phase = "reset"
    /\ boots < MaxBoots
    /\ sigOk(eeprom)
    /\ config' = cfg
    /\ wifiMode' = "STA"
    /\ CallEffects(getWeather(cfg, weather, getWeatherCounter, net, response, now + 1),
                   net, response, 1)
    /\ phase' = "running"
    /\ boots' = boots + 1
    /\ lastWeatherFetch' = now + 1
    /\ UNCHANGED <<eeprom, saved, prior, savePos, rebootIn10mins, httpStatus,
                   tod, brightness, lastScreenSwitch, showWeatherScreen, screen>>

\* POST / in the portal: handleConfigForm()
SubmitForm(form) ==
    LET h == handleConfigForm(form, config) IN
    /\ phase = "running"
    /\ wifiMode = "AP"
    /\ httpStatus' = h.status
    /\ config' = h.config
    /\ IF h.status = 200
       THEN /\ eeprom' = saveSettings(eeprom, h.config)
            /\ saved' = h.config
            /\ prior' = eeprom
            /\ phase' = "restarting"
       ELSE UNCHANGED <<eeprom, saved, prior, phase>>
    /\ UNCHANGED <<savePos, wxVars, wifiMode, rebootIn10mins, boots, dispVars>>

\* ESP.restart(): the globals are initialized again, the EEPROM stays
Reset ==
    /\ phase = "restarting"
    /\ phase' = "reset"
    /\ config' = ConfigGlobals
    /\ weather' = WeatherGlobals
    /\ weather_valid' = FALSE
    /\ getWeatherCounter' = 0
    /\ now' = 0
    /\ calls' = 0
    /\ sinceExt' = 0
    /\ call' = NoCall
    /\ wifiMode' = "OFF"
    /\ rebootIn10mins' = FALSE
    /\ UNCHANGED <<eeprom, saved, prior, savePos, httpStatus, boots>>
    /\ tod' = -1
    /\ brightness' = 0
    /\ lastScreenSwitch' = 0
    /\ showWeatherScreen' = FALSE
    /\ lastWeatherFetch' = 0
    /\ screen' = "none"

BootNext ==
    \/ \E b \in BOOLEAN : SetupPortal(b)
    \/ SetupWifiFailed
    \/ SetupStation("connect_failed", <<>>)
    \/ \E r \in BootResponses : SetupStation("response", r)
    \/ \E f \in Forms : SubmitForm(f)
    \/ Reset

SpecBoot == BootInit /\ [][BootNext]_vars

\* C2: after setup() on a store whose four signature bytes are not exactly
\* 'C','F','G' and the current version, the configuration holds no stored
\* value (it is as initialized at reset) and the device is in the portal.
C2_UntrustedNotDecoded ==
    (/\ phase = "running"
     /\ <<eeprom[ADDR_SIGNATURE], eeprom[ADDR_SIGNATURE + 1],
          eeprom[ADDR_SIGNATURE + 2], eeprom[ADDR_SIGNATURE + 3]>>
            # <<CHAR_C, CHAR_F, CHAR_G, DEVICE_SIGNATURE>>)
    => (config = ConfigGlobals /\ wifiMode = "AP")

\* a record of the older variant (version '1') was found at boot
C2_Witness ==
    /\ phase = "running"
    /\ eeprom[ADDR_SIGNATURE + 3] = OLD_DEVICE_SIGNATURE
    /\ eeprom[ADDR_SSID] = MAX_SSID
    /\ config = ConfigGlobals
    /\ wifiMode = "AP"

(***************************************************************************)
(* Claims about the ranges of the loaded and submitted values.             *)
(***************************************************************************)
\* C11: in every state from reset on, through boots from any storage and
\* submitted forms, sunRise and sunSet are seconds of a day and the
\* dawn/dusk duration is at most 240 minutes.
C11_SunFieldsInRange ==
    /\ config.sunRise \in 0..86399
    /\ config.sunSet \in 0..86399
    /\ config.dawnDuskDuration \in 0..240

\* a form with sunrise 86400 and sunset -1 was saved and loaded at the next boot
C11_Witness ==
    /\ phase = "running"
    /\ boots = 2
    /\ saved.sunRise = 86399
    /\ saved.sunSet = 0
    /\ config.sunRise = 86399
    /\ config.sunSet = 0

\* C12: whatever the storage holds, the record loadSettings leaves never
\* has the manual-timezone flag set together with an empty timezone.
C12_NoManualEmptyTimezone ==
    phase \in {"loaded", "roundtrip"} => ~(config.timezone_manual /\ config.timezone = <<>>)

\* a signed store of 0xFF bytes: flag bit 0 set, timezone length byte 0xFF
C12_Witness ==
    /\ phase = "loaded"
    /\ eeprom[ADDR_TZ] = 255
    /\ Bit(eeprom[ADDR_VARIABLES], 0)
    /\ sigOk(eeprom)
    /\ config.timezone = TZ_UTC0
    /\ ~config.timezone_manual

\* the four signature bytes are not 'C','F','G' and the current version
SignatureMismatch ==
    <<eeprom[ADDR_SIGNATURE], eeprom[ADDR_SIGNATURE + 1],
      eeprom[ADDR_SIGNATURE + 2], eeprom[ADDR_SIGNATURE + 3]>>
        # <<CHAR_C, CHAR_F, CHAR_G, DEVICE_SIGNATURE>>

\* C13: after a boot that found no matching signature the configuration is
\* the documented defaults: no SSID, password or city, timezone "UTC0" not
\* manual, metric units, variable contrast and follow-sun off.
C13_DefaultsAfterBoot ==
    (phase = "running" /\ SignatureMismatch)
    => /\ config.wifiSSID = <<>>
       /\ config.wifiPass = <<>>
       /\ config.city = <<>>
       /\ config.timezone = TZ_UTC0
       /\ ~config.timezone_manual
       /\ ~config.imperial
       /\ ~config.variableContrast
       /\ ~config.contrastFollowSun

\* C14: after a successful refresh wind and pressure are the fourth and
\* fifth segments without surrounding whitespace, or "N/A" when nothing is
\* left of them.
C14_WindPressureOrNA ==
    (/\ call.outcome = "ok"
     /\ Pipes(LineOfCall) = (IF call.ext THEN 8 ELSE 4))
    => /\ weather.wind = OrNA(Seg(LineOfCall, 4))
       /\ weather.press = OrNA(Seg(LineOfCall, 5))

(***************************************************************************)
(* SpecLines: one refresh on every short text made of the bytes the line   *)
(* scan tells apart.                                                       *)
(***************************************************************************)
LineBytes == {"|", "\n", "\r", " ", "a"}

LineTexts == UNION {[1..n -> LineBytes] : n \in 0..MaxLineLen}

LinesRefresh == \E r \in LineTexts : Refresh("response", r, 1, 1)

SpecLines == WxInit /\ [][LinesRefresh]_vars

\* the line the specification describes: the first newline-terminated line
\* holding a '|', else the text after the last newline when it holds one,
\* without carriage returns and surrounding whitespace; empty when neither
SpecCandidate(response) ==
    LET parts      == SplitOn(response, "\n")
        terminated == SubSeq(parts, 1, Len(parts) - 1)
        remainder  == parts[Len(parts)]
        hits       == {i \in 1..Len(terminated) : HasPipe(terminated[i])}
    IN  IF hits # {} THEN Strip(removeCR(terminated[SetMin(hits)]))
        ELSE IF HasPipe(remainder) THEN Strip(removeCR(remainder))
        ELSE <<>>

\* C15: the line getWeather parses is the first terminated line with a '|',
\* the unterminated remainder only when no terminated line has one, and the
\* refresh fails for want of a line exactly when neither has one.
C15_CandidateLine ==
    call.net = "response" =>
        /\ extractLine(call.response) = SpecCandidate(call.response)
        /\ call.outcome = "no_line" <=> SpecCandidate(call.response) = <<>>

\* a terminated line without '|' followed by an unterminated one with it
C15_Witness ==
    /\ call.response = <<"a", "\n", "|", "a">>
    /\ extractLine(call.response) = <<"|", "a">>
    /\ call.outcome = "few_delimiters"

(***************************************************************************)
(* SpecUrl: the city name in the request of one refresh.                   *)
(***************************************************************************)
\* ' '  '%'  '+'  '/'  '-'  '9'  'A'  'z'  '~'  0xC3  0xFF
CityBytes == {32, 37, 43, 47, 45, 57, 65, 122, 126, 195, 255}

CityTexts ==
    {<<b>> : b \in 1..255} \cup UNION {[1..n -> CityBytes] : n \in 0..MaxCityLen}

UrlInit ==
    /\ CfgIdle
    /\ config \in {[ConfigGlobals EXCEPT !.city = s] : s \in CityTexts}
    /\ WxIdle
    /\ SysIdle
    /\ DispIdle

UrlRefresh == Refresh("connect_failed", <<>>, 1, 1)

SpecUrl == UrlInit /\ [][UrlRefresh]_vars

\* bytes allowed in the encoded text: letters, digits, - . _ ~ and %
UrlSafe == (65..90) \cup (97..122) \cup (48..57) \cup {45, 46, 95, 126, 37}

\* value of an uppercase hexadecimal digit
HexValue(c) == IF c <= 57 THEN c - 48 ELSE c - 55

RECURSIVE PercentDecode(_)
PercentDecode(s) ==
    IF s = <<>> THEN <<>>
    ELSE IF Head(s) = 37 /\ Len(s) >= 3
         THEN <<16 * HexValue(s[2]) + HexValue(s[3])>> \o PercentDecode(SubSeq(s, 4, Len(s)))
         ELSE <<Head(s)>> \o PercentDecode(Tail(s))

\* the uppercase hexadecimal digits
UpperHex == (48..57) \cup (65..70)

\* the encoding of one byte as the specification describes it
SpecEncoded(b, e) ==
    IF b \in UrlSafe \ {37} THEN e = <<b>>
    ELSE IF b = 32 THEN e = <<37, 50, 48>>
    ELSE /\ Len(e) = 3 /\ e[1] = 37
         /\ e[2] \in UpperHex /\ e[3] \in UpperHex
         /\ 16 * HexValue(e[2]) + HexValue(e[3]) = b

\* C16: the encoded city holds only letters, digits, - . _ ~ and %;
\* unreserved bytes are copied, a space becomes %20 and any other byte
\* % and its two uppercase hex digits; decoding gives the city back.
C16_UrlEncode ==
    call.net = "connect_failed" =>
        /\ \A i \in 1..Len(call.cityEnc) : call.cityEnc[i] \in UrlSafe
        /\ \A i \in 1..Len(config.city) :
              SpecEncoded(config.city[i], encodeByte(config.city[i]))
        /\ PercentDecode(call.cityEnc) = config.city

\* a name with a space and a non-ASCII byte was requested
C16_Witness ==
    /\ config.city = <<32, 195>>
    /\ call.cityEnc = <<37, 50, 48, 37, 67, 51>>

(***************************************************************************)
(* The brightness of the display.  Instants are seconds counted from the   *)
(* start of the local day (todayStartsSec).                                *)
(***************************************************************************)
SEC_PER_DAY == 86400

digitOf(c) ==
    CASE c = "0" -> 0 [] c = "1" -> 1 [] c = "2" -> 2 [] c = "3" -> 3 [] c = "4" -> 4
      [] c = "5" -> 5 [] c = "6" -> 6 [] c = "7" -> 7 [] c = "8" -> 8 [] c = "9" -> 9
      [] OTHER -> -1

\* value of the leading digits of a text, continuing from acc
RECURSIVE textDigits(_, _)
textDigits(s, acc) ==
    IF s = <<>> \/ digitOf(Head(s)) < 0 THEN acc
    ELSE LET d == digitOf(Head(s)) IN
         IF acc > LONG_MAX \div 10 \/ (acc = LONG_MAX \div 10 /\ d > LONG_MAX % 10)
         THEN LONG_MAX
         ELSE textDigits(Tail(s), 10 * acc + d)

\* String::toInt() on a text of the weather snapshot
RECURSIVE textToInt(_)
textToInt(s) ==
    IF s = <<>> THEN 0
    ELSE IF isspace(Head(s)) THEN textToInt(Tail(s))
    ELSE IF Head(s) = "-" THEN 0 - textDigits(Tail(s), 0)
    ELSE IF Head(s) = "+" THEN textDigits(Tail(s), 0)
    ELSE textDigits(s, 0)

\* variant: the minutes are left out
hhmmToSeconds_hoursOnly(hhmm) ==
    LET colon == indexOf(hhmm, ":", 0)
        h     == textToInt(substring(hhmm, 0, colon))
    IN  clamp(h, 0, 23) * 3600

hhmmToSeconds(hhmm) ==
    LET colon == indexOf(hhmm, ":", 0)
        h     == textToInt(substring(hhmm, 0, colon))
        m     == textToInt(substringFrom(hhmm, colon + 1))
    IN  clamp(h, 0, 23) * 3600 + clamp(m, 0, 59) * 60

\* variant: the blend is cut without adding one half
lerpU8_truncated(a, b, dt, span) ==
    IF dt <= 0 THEN {a}
    ELSE IF dt >= span THEN {b}
    ELSE {(a * span + (b - a) * dt) \div span}

\* the longest span, in seconds, of a ramp of the manual schedule (240 minutes)
ExactSpan == 240 * 60

\* single precision: t, the product, the sum and the sum with one half are
\* each rounded to 24 bits, so the blend below 256 is off by less than
\* 1 / NearTie of its exact value
NearTie == 8192

\* lerpU8() at t = dt / span: the values it can return.  The blend is
\* computed in single precision and cut after adding one half.  On an exact
\* half the rounding of t and of the product decides between the two
\* neighbours.  Off an exact half the result is the nearest integer for
\* every span up to ExactSpan (single precision is then exact enough for
\* all contrasts and instants); for longer spans a blend within 1 / NearTie
\* of a half can fall on either side.
lerpU8(a, b, dt, span) ==
    IF dt <= 0 THEN {a}
    ELSE IF dt >= span THEN {b}
    ELSE LET num == 2 * a * span + 2 * (b - a) * dt + span
             q   == num \div (2 * span)
             r   == num % (2 * span)
         IN  IF r = 0 THEN {q - 1, q}
             ELSE IF span > ExactSpan /\ r * NearTie < 2 * span THEN {q - 1, q}
             ELSE IF span > ExactSpan /\ (2 * span - r) * NearTie < 2 * span THEN {q, q + 1}
             ELSE {q}

\* variant: no wrap over midnight
inRange_noWrap(x, a, b) == x >= a /\ x < b

\* the lambda inRange: x in [a, b), wrapping midnight when a > b
inRange(x, a, b) == IF a <= b THEN x >= a /\ x < b ELSE x >= a \/ x < b

\* variant: the duration is taken as seconds
sunEvents_durationInSeconds(cfg, wx) ==
    LET rise  == IF cfg.contrastFollowSun THEN hhmmToSeconds(wx.sunrise) ELSE cfg.sunRise
        set   == IF cfg.contrastFollowSun THEN hhmmToSeconds(wx.sunset) ELSE cfg.sunSet
        dawn0 == IF cfg.contrastFollowSun THEN hhmmToSeconds(wx.sundawn)
                 ELSE cfg.sunRise - cfg.dawnDuskDuration
        dusk0 == IF cfg.contrastFollowSun THEN hhmmToSeconds(wx.sundusk)
                 ELSE cfg.sunSet + cfg.dawnDuskDuration
    IN  [dawn |-> IF dawn0 < 0 THEN dawn0 + SEC_PER_DAY ELSE dawn0,
         rise |-> rise,
         set  |-> set,
         dusk |-> IF dusk0 >= SEC_PER_DAY THEN dusk0 - SEC_PER_DAY ELSE dusk0]

\* the four instants after the wrap of dawn and dusk onto today
sunEvents(cfg, wx) ==
    LET rise  == IF cfg.contrastFollowSun THEN hhmmToSeconds(wx.sunrise) ELSE cfg.sunRise
        set   == IF cfg.contrastFollowSun THEN hhmmToSeconds(wx.sunset) ELSE cfg.sunSet
        dawn0 == IF cfg.contrastFollowSun THEN hhmmToSeconds(wx.sundawn)
                 ELSE cfg.sunRise - cfg.dawnDuskDuration * 60
        dusk0 == IF cfg.contrastFollowSun THEN hhmmToSeconds(wx.sundusk)
                 ELSE cfg.sunSet + cfg.dawnDuskDuration * 60
    IN  [dawn |-> IF dawn0 < 0 THEN dawn0 + SEC_PER_DAY ELSE dawn0,
         rise |-> rise,
         set  |-> set,
         dusk |-> IF dusk0 >= SEC_PER_DAY THEN dusk0 - SEC_PER_DAY ELSE dusk0]

\* a ramp from contrast a at instant from to contrast b at instant to
ramp(a, b, x, from, to) ==
    LET span0 == to - from
        span  == IF span0 <= 0 THEN span0 + SEC_PER_DAY ELSE span0
        dt0   == x - from
        dt    == IF dt0 < 0 THEN dt0 + SEC_PER_DAY ELSE dt0
    IN  lerpU8(a, b, dt, span)

\* the four segment checks, in the order of the code
segmentBrightness(ev, cfg, x) ==
    IF inRange(x, ev.dawn, ev.rise)
    THEN ramp(cfg.nightContrast, cfg.dayContrast, x, ev.dawn, ev.rise)
    ELSE IF inRange(x, ev.rise, ev.set) THEN {cfg.dayContrast}
    ELSE IF inRange(x, ev.set, ev.dusk)
    THEN ramp(cfg.dayContrast, cfg.nightContrast, x, ev.set, ev.dusk)
    ELSE {cfg.nightContrast}

\* variant: the variable contrast switch is not consulted
calculateDisplayBrightness_always(cfg, wx, x) == segmentBrightness(sunEvents(cfg, wx), cfg, x)

\* calculateDisplayBrightness_d() at instant x of the day: the values it can return
calculateDisplayBrightness_d(cfg, wx, x) ==
    IF ~cfg.variableContrast THEN {255}
    ELSE segmentBrightness(sunEvents(cfg, wx), cfg, x)

(***************************************************************************)
(* SpecDim: the brightness computed at instants of the day, for manual and *)
(* sun-following configurations.                                           *)
(***************************************************************************)
Manual(rise, set, dur, day, night) ==
    [ConfigGlobals EXCEPT !.variableContrast = TRUE, !.contrastFollowSun = FALSE,
                          !.sunRise = rise, !.sunSet = set, !.dawnDuskDuration = dur,
                          !.dayContrast = day, !.nightContrast = night]

\* the configuration of the example: 07:00 to 21:00, 30 minutes, 255 and 1
ManualExample == Manual(25200, 75600, 30, 255, 1)

ManualConfigs ==
    { ManualExample,
      Manual(25200, 75600, 0, 255, 1),
      Manual(25200, 75600, 240, 200, 10),
      Manual(25200, 75600, 7, 100, 3),
      Manual(25200, 75600, 30, 10, 200),
      Manual(600, 40000, 30, 255, 1),
      Manual(40000, 86000, 30, 255, 1),
      Manual(900, 85500, 15, 0, 255),
      Manual(79200, 36000, 30, 255, 1),
      Manual(1000, 900, 30, 255, 1),
      Manual(600, 86000, 30, 255, 1),
      Manual(0, 86399, 240, 255, 1),
      Manual(25200, 25200, 0, 255, 1) }

Text(a, b, c, d, e) == <<a, b, c, d, e>>

\* snapshots: as at reset, as received from the server, and with texts that
\* are no times
SunSnapshots ==
    { WeatherGlobals,
      [WeatherGlobals EXCEPT !.sundawn = Text("0", "5", ":", "1", "2") \o <<":", "3", "0">>,
                             !.sunrise = Text("0", "5", ":", "4", "1") \o <<":", "2", "8">>,
                             !.sunset = Text("2", "0", ":", "5", "9") \o <<":", "0", "1">>,
                             !.sundusk = Text("2", "1", ":", "2", "8") \o <<":", "5", "9">>],
      [WeatherGlobals EXCEPT !.sundawn = <<"t">>, !.sunrise = <<"c">>,
                             !.sunset = <<"h">>, !.sundusk = <<"w", "|", "p">>],
      [WeatherGlobals EXCEPT !.sundawn = Text("2", "3", ":", "5", "0"),
                             !.sunrise = Text("0", "0", ":", "2", "0"),
                             !.sunset = Text("9", "9", ":", "9", "9"),
                             !.sundusk = <<>>],
      [WeatherGlobals EXCEPT !.sundawn = Text("0", "1", ":", "0", "0"),
                             !.sunrise = Text("1", "2", ":", "0", "0"),
                             !.sunset = Text("1", "3", ":", "0", "0"),
                             !.sundusk = Text("2", "3", ":", "0", "0")],
      [WeatherGlobals EXCEPT !.sundawn = <<"4", "5", "%">>,
                             !.sunrise = <<"+", "7">>,
                             !.sunset = <<"x", ":", "3", "0">>,
                             !.sundusk = <<"1", "0", "1", "3">>] }

DimInit ==
    /\ CfgIdle
    /\ \/ /\ config \in ManualConfigs
             \cup {[c EXCEPT !.variableContrast = FALSE] : c \in ManualConfigs}
          /\ weather = WeatherGlobals
       \/ /\ config \in {[ManualExample EXCEPT !.contrastFollowSun = TRUE, !.variableContrast = v] :
                             v \in BOOLEAN}
          /\ weather \in SunSnapshots
    /\ weather_valid = FALSE
    /\ getWeatherCounter = 0
    /\ now = 0
    /\ calls = 0
    /\ sinceExt = 0
    /\ call = NoCall
    /\ SysIdle
    /\ DispIdle

\* the instants at which the brightness is computed
Times(cfg, wx) ==
    LET ev   == sunEvents(cfg, wx)
        step == SEC_PER_DAY \div GridPoints
        arc(from, to) == (to - from + SEC_PER_DAY) % SEC_PER_DAY
        inRamp(from, to) ==
            {(from + (k * arc(from, to)) \div RampPoints) % SEC_PER_DAY : k \in 0..RampPoints}
    IN  {k * step : k \in 0..(GridPoints - 1)}
        \cup {23400, 24300, 25200, 43200, 76500, 82800}
        \cup {(e + o + SEC_PER_DAY) % SEC_PER_DAY :
                 e \in {ev.dawn, ev.rise, ev.set, ev.dusk}, o \in {-1, 0, 1}}
        \cup inRamp(ev.dawn, ev.rise) \cup inRamp(ev.set, ev.dusk)
        \cup (0..MidnightWindow) \cup ((SEC_PER_DAY - 1 - MidnightWindow)..(SEC_PER_DAY - 1))

\* setDisplayBrightness(calculateDisplayBrightness()) at instant x of the day
Draw(x) ==
    /\ tod' = x
    /\ brightness' \in calculateDisplayBrightness_d(config, weather, x)
    /\ UNCHANGED <<cfgVars, wxVars, sysVars, loopVars>>

DimNext == \E x \in Times(config, weather) : Draw(x)

SpecDim == DimInit /\ [][DimNext]_vars

(***************************************************************************)
(* Claims about the brightness (SpecDim).                                  *)
(***************************************************************************)
\* the brightness has been computed; with variable contrast enabled
Drawn == tod >= 0
Dimmed == Drawn /\ config.variableContrast

\* the four boundary instants of the schedule in force
Ev == sunEvents(config, weather)

\* the length of the way from instant a forward to instant b
Arc(a, b) == (b - a + SEC_PER_DAY) % SEC_PER_DAY

\* x lies in the wrap-aware half-open interval [a, b)
In(x, a, b) == IF a <= b THEN a <= x /\ x < b ELSE x >= a \/ x < b

\* the integers less than one away from a + (b - a) * el / span
Mix(a, b, el, span) ==
    {v \in 0..255 : /\ span * v - span < a * span + (b - a) * el
                    /\ a * span + (b - a) * el < span * v + span}

\* the integers nearest to a + (b - a) * el / span
Blend(a, b, el, span) ==
    {v \in 0..255 : /\ 2 * span * v - span <= 2 * a * span + 2 * (b - a) * el
                    /\ 2 * a * span + 2 * (b - a) * el <= 2 * span * v + span}

\* dawn ramp, day and dusk ramp together are no longer than a day
NoOverlap == Arc(Ev.dawn, Ev.rise) + Arc(Ev.rise, Ev.set) + Arc(Ev.set, Ev.dusk) <= SEC_PER_DAY

\* dawn, sunrise, sunset, dusk, dawn in this order go once round the day
OnceRound ==
    Arc(Ev.dawn, Ev.rise) + Arc(Ev.rise, Ev.set) + Arc(Ev.set, Ev.dusk)
        + Arc(Ev.dusk, Ev.dawn) = SEC_PER_DAY

\* C17: with variable contrast disabled the brightness is 255 at every
\* instant, whatever the other settings and the snapshot.
C17_FullWhenDisabled == (Drawn /\ ~config.variableContrast) => brightness = 255

\* at night, with contrasts 255 and 1 configured and the feature off
C17_Witness ==
    /\ config = [ManualExample EXCEPT !.variableContrast = FALSE]
    /\ tod = 82800
    /\ brightness = 255

\* the values of the example at 06:30, 06:45, 07:00, 12:00, 21:15, 23:00
ExampleValues ==
    config = ManualExample =>
        /\ tod = 23400 => brightness = 1
        /\ tod = 24300 => brightness = 128
        /\ tod = 25200 => brightness = 255
        /\ tod = 43200 => brightness = 255
        /\ tod = 76500 => (brightness > 1 /\ brightness < 255)
        /\ tod = 82800 => brightness = 1

\* day contrast throughout [sunrise, sunset), night contrast throughout [dusk, dawn)
Plateaus ==
    /\ In(tod, Ev.rise, Ev.set) => brightness = config.dayContrast
    /\ In(tod, Ev.dusk, Ev.dawn) => brightness = config.nightContrast

\* C18 as stated: the example values, and the plateaus in every manual schedule.
C18_ExampleAndPlateausAll ==
    (Dimmed /\ ~config.contrastFollowSun) => (ExampleValues /\ Plateaus)

\* C18 amended: the example values, and the plateaus in every manual
\* schedule whose dawn ramp, day and dusk ramp do not overlap.
C18_ExampleAndPlateaus ==
    (Dimmed /\ ~config.contrastFollowSun) => (ExampleValues /\ (NoOverlap => Plateaus))

\* the midpoint of the dawn ramp of the example
C18_Witness ==
    /\ config = ManualExample
    /\ tod = 24300
    /\ brightness = 128

\* the four segments with the values assigned to them
Segments ==
    { [from |-> Ev.dusk, to |-> Ev.dawn, values |-> {config.nightContrast}],
      [from |-> Ev.dawn, to |-> Ev.rise,
       values |-> Mix(config.nightContrast, config.dayContrast,
                        Arc(Ev.dawn, tod), Arc(Ev.dawn, Ev.rise))],
      [from |-> Ev.rise, to |-> Ev.set, values |-> {config.dayContrast}],
      [from |-> Ev.set, to |-> Ev.dusk,
       values |-> Mix(config.dayContrast, config.nightContrast,
                        Arc(Ev.set, tod), Arc(Ev.set, Ev.dusk))] }

\* the instant lies in exactly one segment and the brightness is its value
OneSegment ==
    /\ Cardinality({s \in Segments : In(tod, s.from, s.to)}) = 1
    /\ \A s \in Segments : In(tod, s.from, s.to) => brightness \in s.values

Ordered ==
    << [from |-> Ev.dawn, to |-> Ev.rise,
        values |-> Mix(config.nightContrast, config.dayContrast,
                       Arc(Ev.dawn, tod), Arc(Ev.dawn, Ev.rise))],
       [from |-> Ev.rise, to |-> Ev.set, values |-> {config.dayContrast}],
       [from |-> Ev.set, to |-> Ev.dusk,
        values |-> Mix(config.dayContrast, config.nightContrast,
                       Arc(Ev.set, tod), Arc(Ev.set, Ev.dusk))],
       [from |-> tod, to |-> tod + 1, values |-> {config.nightContrast}] >>

\* the brightness is the value of the first of them that contains the instant
FirstMatch ==
    LET first == SetMin({i \in 1..4 : In(tod, Ordered[i].from, Ordered[i].to)})
    IN  brightness \in Ordered[first].values

Wrapped ==
    /\ config.variableContrast /\ ~config.contrastFollowSun
    /\ \/ config.sunRise - config.dawnDuskDuration * 60 < 0
       \/ config.sunSet + config.dawnDuskDuration * 60 >= SEC_PER_DAY

\* the instant x lies in the dawn ramp, in the dusk ramp, and the ramp crosses midnight
InDawn(x) == x >= 0 /\ Ev.dawn > Ev.rise /\ In(x, Ev.dawn, Ev.rise)
InDusk(x) == x >= 0 /\ Ev.set > Ev.dusk /\ In(x, Ev.set, Ev.dusk)

\* v is not further from contrast a than w is, on the way from a to b
Toward(a, b, v, w) == IF a <= b THEN v <= w ELSE v >= w

\* inside a ramp that crosses midnight the new brightness is the rounded
\* blend, and it has not moved back since an earlier instant of that ramp
RampStep ==
    /\ InDawn(tod') =>
          /\ brightness' \in Blend(config.nightContrast, config.dayContrast,
                                    Arc(Ev.dawn, tod'), Arc(Ev.dawn, Ev.rise))
          /\ (InDawn(tod) /\ Arc(Ev.dawn, tod) < Arc(Ev.dawn, tod'))
                => Toward(config.nightContrast, config.dayContrast, brightness, brightness')
    /\ InDusk(tod') =>
          /\ brightness' \in Blend(config.dayContrast, config.nightContrast,
                                    Arc(Ev.set, tod'), Arc(Ev.set, Ev.dusk))
          /\ (InDusk(tod) /\ Arc(Ev.set, tod) < Arc(Ev.set, tod'))
                => Toward(config.dayContrast, config.nightContrast, brightness, brightness')

\* C20 as stated: in manual mode with a wrapped dawn or dusk, at every
\* instant of a ramp that crosses midnight the brightness is the rounded
\* blend over elapsed and span taken modulo one day, and it moves one way.
C20_WrappedRampAll == [][Wrapped => RampStep]_vars

\* C20 amended: the same when dawn ramp, day and dusk ramp do not overlap.
C20_WrappedRamp == [][(Wrapped /\ NoOverlap) => RampStep]_vars

\* one second before midnight in a dawn ramp from 23:40 to 00:10
C20_Witness ==
    /\ config = Manual(600, 40000, 30, 255, 1)
    /\ tod = 86399
    /\ brightness = 170

(***************************************************************************)
(* Claims about the sun strings (SpecDim).                                 *)
(***************************************************************************)
DigitChars == <<"0", "1", "2", "3", "4", "5", "6", "7", "8", "9">>
IsDigitChar(c) == \E i \in 1..10 : DigitChars[i] = c
DigitValue(c) == (CHOOSE i \in 1..10 : DigitChars[i] = c) - 1

\* the number written by the leading digits of s
RECURSIVE LeadNum(_, _)
LeadNum(s, acc) ==
    IF s = <<>> \/ ~IsDigitChar(Head(s)) THEN acc
    ELSE LeadNum(Tail(s), 10 * acc + DigitValue(Head(s)))

\* the parts of s before and after its first colon
HasColon(s) == \E i \in 1..Len(s) : s[i] = ":"
FirstColon(s) == SetMin({i \in 1..Len(s) : s[i] = ":"})
HourPart(s) == SubSeq(s, 1, FirstColon(s) - 1)
MinutePart(s) == SubSeq(s, FirstColon(s) + 1, Len(s))

\* s reads HH:MM with an hour of the day and a minute of the hour
IsHHMM(s) ==
    /\ HasColon(s)
    /\ HourPart(s) # <<>> /\ \A i \in 1..Len(HourPart(s)) : IsDigitChar(HourPart(s)[i])
    /\ MinutePart(s) # <<>> /\ IsDigitChar(Head(MinutePart(s)))
    /\ LeadNum(HourPart(s), 0) <= 23
    /\ LeadNum(MinutePart(s), 0) <= 59

\* s is empty, has no colon, or has text that is no number around the colon
Unparsable(s) ==
    \/ ~HasColon(s)
    \/ HourPart(s) = <<>> \/ ~IsDigitChar(Head(HourPart(s)))
    \/ MinutePart(s) = <<>> \/ ~IsDigitChar(Head(MinutePart(s)))

\* the boundary that string s must give
BoundaryOf(s, v) ==
    /\ IsHHMM(s) => v = LeadNum(HourPart(s), 0) * 3600 + LeadNum(MinutePart(s), 0) * 60
    /\ Unparsable(s) => v = 0

\* C21: in follow-sun mode each boundary is the second of the day written
\* in the HH:MM string of the snapshot, and 0 for every string that is
\* empty, has no colon or holds other text.
C21_BoundariesFromStrings ==
    (Dimmed /\ config.contrastFollowSun) =>
        /\ BoundaryOf(weather.sundawn, Ev.dawn)
        /\ BoundaryOf(weather.sunrise, Ev.rise)
        /\ BoundaryOf(weather.sunset, Ev.set)
        /\ BoundaryOf(weather.sundusk, Ev.dusk)

\* follow-sun mode with the sun strings that the snapshot holds at reset
FollowsUnfetchedSun ==
    /\ Dimmed /\ config.contrastFollowSun
    /\ weather.sundawn = WeatherGlobals.sundawn /\ weather.sunrise = WeatherGlobals.sunrise
    /\ weather.sunset = WeatherGlobals.sunset /\ weather.sundusk = WeatherGlobals.sundusk

\* C25 as stated: in follow-sun mode before any sun data was parsed the
\* four boundaries are 0 and the whole day is one ramp from night to day.
C25_ZeroedAllDayRamp ==
    FollowsUnfetchedSun =>
        /\ Ev = [dawn |-> 0, rise |-> 0, set |-> 0, dusk |-> 0]
        /\ brightness \in Mix(config.nightContrast, config.dayContrast, tod, SEC_PER_DAY)

\* C25 amended: in follow-sun mode before any sun data was parsed the
\* boundaries are those of the initial strings 07:00, 07:30, 19:00, 19:30,
\* and the day has its four segments: night, dawn ramp, day, dusk ramp.
C25_DefaultSunSchedule ==
    FollowsUnfetchedSun =>
        /\ Ev = [dawn |-> 25200, rise |-> 27000, set |-> 68400, dusk |-> 70200]
        /\ OneSegment
        /\ (tod < 25200 \/ tod >= 70200) => brightness = config.nightContrast
        /\ (tod >= 27000 /\ tod < 68400) => brightness = config.dayContrast

\* noon with the initial strings
C25_Witness ==
    /\ FollowsUnfetchedSun
    /\ tod = 43200
    /\ brightness = 255
    /\ config.nightContrast = 1

(***************************************************************************)
(* The layout of the store (SpecLayout): records whose strings are longer  *)
(* than their slots, saved over every prior content and loaded again.      *)
(***************************************************************************)
LongRecords ==
    {RecA, RecB}
    \cup {[RecB EXCEPT !.wifiSSID = Fill(MAX_SSID + k, 66)] : k \in 1..MaxOver}
    \cup {[RecB EXCEPT !.wifiPass = Fill(MAX_PASS + k, 65)] : k \in 1..MaxOver}
    \cup {[RecB EXCEPT !.city = Fill(MAX_CITY + k, 66)] : k \in 1..MaxOver}
    \cup {[RecB EXCEPT !.timezone = Fill(MAX_TZ + k, 65)] : k \in 1..MaxOver}
    \cup {[RecA EXCEPT !.wifiSSID = Fill(MAX_SSID + MAX_TZ, 66),
                       !.wifiPass = Fill(MAX_PASS + MAX_TZ, 65),
                       !.city = Fill(MAX_CITY + MAX_TZ, 66),
                       !.timezone = Fill(MAX_TZ + MAX_TZ + MAX_TZ, 65)]}

LayoutInit ==
    /\ eeprom \in PriorStorage
    /\ config \in LongRecords
    /\ phase = "init"
    /\ saved = config
    /\ prior = eeprom
    /\ savePos = 0
    /\ WxIdle
    /\ SysIdle
    /\ DispIdle

SpecLayout == LayoutInit /\ [][StoreNext]_vars

\* the declared slots
SlotSSID == 0..60
SlotPass == 70..130
SlotCity == 140..200
SlotTZ == 210..290
SlotVariables == 300..312
SlotSignature == 500..503
Slots == <<SlotSSID, SlotPass, SlotCity, SlotTZ, SlotVariables, SlotSignature>>
AllSlots == UNION {Slots[i] : i \in 1..6}

\* the addresses written by a sequence of writes
Written(ws) == {ws[i][1] : i \in 1..Len(ws)}

\* the store with every byte outside the slots cleared
Masked(mem) == [a \in Addr |-> IF a \in AllSlots THEN mem[a] ELSE 0]

\* C30: the slots are pairwise disjoint and inside the store; saving a record
\* with strings of any length writes each field inside its own slot and
\* leaves every byte outside the slots as it was; what loading returns does
\* not depend on any byte outside the slots.
C30_LayoutInBounds ==
    /\ \A i, j \in 1..6 : i # j => Slots[i] \cap Slots[j] = {}
    /\ AllSlots \subseteq 0..(EEPROM_SIZE - 1)
    /\ Written(eepromWriteString(ADDR_SSID, config.wifiSSID, MAX_SSID)) \subseteq SlotSSID
    /\ Written(eepromWriteString(ADDR_PASS, config.wifiPass, MAX_PASS)) \subseteq SlotPass
    /\ Written(eepromWriteString(ADDR_CITY, config.city, MAX_CITY)) \subseteq SlotCity
    /\ Written(eepromWriteString(ADDR_TZ, config.timezone, MAX_TZ)) \subseteq SlotTZ
    /\ Written(saveSettingsWrites(config)) = AllSlots
    /\ Written(writeSignature) = SlotSignature
    /\ phase \in {"saved", "roundtrip"} =>
          \A a \in Addr \ AllSlots : eeprom[a] = prior[a]
    /\ phase = "saved" =>
          /\ \A a \in SlotSignature : eeprom[a] = saveSettings(prior, RecA)[a]
          /\ \A a \in SlotVariables : eeprom[a] = saveSettings(Blank, saved)[a]
    /\ phase \in {"loaded", "roundtrip"} => config = loadSettings(Masked(eeprom), config)

\* a 61-byte SSID saved over erased flash and loaded: byte 61 is untouched
C30_Witness ==
    /\ phase = "roundtrip"
    /\ Len(saved.wifiSSID) = MAX_SSID + 1
    /\ Len(config.wifiSSID) = MAX_SSID
    /\ eeprom[ADDR_SSID] = MAX_SSID
    /\ prior[MAX_SSID + 1] = 255
    /\ eeprom[MAX_SSID + 1] = 255

(***************************************************************************)
(* Claims about the configuration form (SpecBoot).                         *)
(***************************************************************************)
\* the form fails validation
Invalid(f) ==
    \/ f.ssid = <<>> \/ f.city = <<>> \/ f.tz = <<>>
    \/ (f.tz = MANUAL /\ f.tz_manual = <<>>)

\* C27: a submission that fails validation is answered with 400 and leaves
\* the configuration, the store and the run of the device as they were; a
\* step that writes the store or restarts is a submission that passes
\* validation, answered with 200.
C27_RejectedChangesNothing ==
    [][/\ \A f \in Forms : (Invalid(f) /\ SubmitForm(f)) =>
             (httpStatus' = 400 /\ UNCHANGED <<config, eeprom, phase, boots, wifiMode>>)
       /\ (eeprom' # eeprom \/ phase' = "restarting") =>
             (httpStatus' = 200 /\ \E f \in Forms : ~Invalid(f) /\ SubmitForm(f))]_vars

\* in the first portal session a form was rejected: nothing was stored
C27_Witness ==
    /\ phase = "running"
    /\ wifiMode = "AP"
    /\ boots = 1
    /\ httpStatus = 400
    /\ eeprom = Blank
    /\ config = ConfigGlobals

(***************************************************************************)
(* Claims about the validity of the snapshot (SpecWx, SpecCadence).        *)
(***************************************************************************)
\* C29: weather_valid is true only after a refresh has succeeded
\* (lastSuccessfulUpdate is not 0), and then temperature and condition are
\* not empty and are those of the latest successful parse: a success stores
\* the first two segments of its line, a failure keeps what is stored.
C29_ValidHasSnapshot ==
    [][weather_valid' =>
          /\ weather'.lastSuccessfulUpdate # 0
          /\ weather'.temp # <<>> /\ weather'.cond # <<>>
          /\ IF call'.outcome = "ok"
             THEN /\ weather'.temp = Seg(CandidateOf(call'.response), 1)
                  /\ weather'.cond = Seg(CandidateOf(call'.response), 2)
             ELSE /\ weather'.temp = weather.temp
                  /\ weather'.cond = weather.cond]_vars

\* valid after a failed refresh, with the snapshot of the earlier success
C29_Witness ==
    /\ weather_valid
    /\ call.outcome \in Failed
    /\ weather.lastSuccessfulUpdate # 0
    /\ weather.temp = <<"t">>
    /\ weather.cond = <<"c">>

\* C26: a failed refresh after a failed refresh that returned invalid also
\* returns invalid, and validity turns from false to true only in a
\* successful refresh.
C26_NoFlapping ==
    [][Called =>
          /\ (call.outcome \in Failed /\ ~weather_valid /\ call'.outcome \in Failed)
                => ~weather_valid'
          /\ (~weather_valid /\ weather_valid') => call'.outcome = "ok"]_vars

\* the third failure in a row after a success, the second past the retention
C26_Witness ==
    /\ call.outcome \in Failed
    /\ ~weather_valid
    /\ weather.lastSuccessfulUpdate # 0
    /\ now - weather.lastSuccessfulUpdate = 3 * (RETENTION_MS - 1)

(***************************************************************************)
(* SpecLoop: setup() in station mode and the iterations of loop().  One    *)
(* iteration lasts LOOP_DELAY_MS.  The iterations in which no screen switch *)
(* is due change nothing but the clock and the picture, and are taken      *)
(* together in one step; the iteration in which the switch is due is a     *)
(* step of its own.                                                        *)
(***************************************************************************)
SCREEN_MS == 15000
FETCH_MS == 900000
LOOP_DELAY_MS == 10

\* the second of the local day at millis() = t, the device started at midnight
localSecond(t) == (t \div 1000) % SEC_PER_DAY

\* variant: the weather screen is drawn whenever it is selected
selectScreen_ignoresValid(show, valid) == IF show THEN "weather" ELSE "time"

\* the screen loop() draws
selectScreen(show, valid) == IF show /\ valid THEN "weather" ELSE "time"

\* variant: weather is fetched at every switch to the weather screen
fetchDue_always(t, last) == TRUE

\* the weather is older than 15 minutes
fetchDue(t, last) == t - last > FETCH_MS

\* drawWeatherScreen() or drawTimeScreen() at millis() = t
DrawAt(t, show, valid, wx) ==
    /\ screen' = selectScreen(show, valid)
    /\ tod' = localSecond(t)
    /\ brightness' \in calculateDisplayBrightness_d(config, wx, localSecond(t))

\* the iterations up to the last one before the screen switch is due
LoopRedraw ==
    LET k == (lastScreenSwitch + SCREEN_MS - now) \div LOOP_DELAY_MS
        t == now + k * LOOP_DELAY_MS
    IN  /\ phase = "running"
        /\ wifiMode = "STA"
        /\ k >= 1
        /\ now' = t
        /\ DrawAt(t, showWeatherScreen, weather_valid, weather)
        /\ UNCHANGED <<cfgVars, sysVars, weather, weather_valid, getWeatherCounter, calls,
                       sinceExt, call, lastScreenSwitch, showWeatherScreen, lastWeatherFetch>>

\* the iteration in which the screen switch is due
LoopSwitch(net, response) ==
    LET t    == now + LOOP_DELAY_MS
        show == ~showWeatherScreen
        g    == getWeather(config, weather, getWeatherCounter, net, response, t + FetchMs)
    IN  /\ phase = "running"
        /\ wifiMode = "STA"
        /\ t - lastScreenSwitch > SCREEN_MS
        /\ t + FetchMs <= MaxUptime
        /\ showWeatherScreen' = show
        /\ lastScreenSwitch' = t
        /\ IF show /\ fetchDue(t, lastWeatherFetch)
           THEN /\ CallEffects(g, net, response, LOOP_DELAY_MS + FetchMs)
                /\ lastWeatherFetch' = t + FetchMs
                /\ DrawAt(t + FetchMs, show, g.ret, g.weather)
           ELSE /\ now' = t
                /\ DrawAt(t, show, weather_valid, weather)
                /\ UNCHANGED <<weather, weather_valid, getWeatherCounter, calls, sinceExt,
                               call, lastWeatherFetch>>
        /\ UNCHANGED <<cfgVars, sysVars>>

LoopRecords == {RecA, [RecA EXCEPT !.variableContrast = FALSE]}

LoopInit ==
    /\ eeprom \in {saveSettings(Blank, r) : r \in LoopRecords}
    /\ config = ConfigGlobals
    /\ phase = "reset"
    /\ saved = ConfigGlobals
    /\ prior = eeprom
    /\ savePos = 0
    /\ WxIdle
    /\ wifiMode = "OFF"
    /\ rebootIn10mins = FALSE
    /\ httpStatus = 0
    /\ boots = 0
    /\ DispIdle

LoopSetup ==
    \/ SetupStation("connect_failed", <<>>)
    \/ SetupStation("response", HttpHead \o LineBase \o CRLF)

LoopFetch ==
    \/ LoopSwitch("connect_failed", <<>>)
    \/ LoopSwitch("response", HttpHead \o LineBase \o CRLF)

LoopNext == LoopSetup \/ LoopRedraw \/ LoopFetch

SpecLoop == LoopInit /\ [][LoopNext]_vars

\* loop() is called again and again
SpecLoopFair == SpecLoop /\ WF_vars(LoopRedraw) /\ WF_vars(LoopFetch)

(***************************************************************************)
(* Claims about loop() in station mode (SpecLoop).                         *)
(***************************************************************************)
\* loop() has drawn a screen in station mode
StationDrawn == phase = "running" /\ wifiMode = "STA" /\ screen # "none"

\* C22: in station mode the weather screen is drawn only while weather_valid
\* is true and the weather screen is selected; while weather_valid is false
\* every iteration draws the clock screen, whichever screen is selected.
C22_WeatherScreenOnlyValid ==
    StationDrawn =>
        /\ screen = "weather" => (weather_valid /\ showWeatherScreen)
        /\ ~weather_valid => screen = "time"

\* the weather screen is selected after a failed refresh: the clock is drawn
C22_Witness ==
    /\ StationDrawn
    /\ showWeatherScreen
    /\ ~weather_valid
    /\ call.outcome = "connect_failed"
    /\ screen = "time"

\* C23: whenever loop() has drawn the weather screen, the last successful
\* update is less than 90 minutes old.
C23_DrawnWithinRetention ==
    (StationDrawn /\ screen = "weather") => now - weather.lastSuccessfulUpdate < RETENTION_MS

\* the latest loop() step made a call of getWeather
LoopCalled == Called /\ phase = "running"

\* instants up to which a further call is still within the time followed
CallStillFollowed == MaxUptime - FETCH_MS - 3 * SCREEN_MS - FetchMs

AP_REBOOT_MS == 600000 \* uptime after which a portal opened by a WiFi failure restarts

\* variant: the timed restart does not look at rebootIn10mins
portalRestartDue_anyPortal(flag, t) == t > AP_REBOOT_MS

\* the two nested conditions in front of ESP.restart() in the portal branch
portalRestartDue(flag, t) == flag /\ t > AP_REBOOT_MS

\* ApStep milliseconds of iterations of loop() with WiFi in AP mode: the
\* timed restart if it is due, otherwise server.handleClient() and return
\* (a request that arrives is SubmitForm)
LoopPortal ==
    LET t == now + ApStep IN
    /\ phase = "running"
    /\ wifiMode = "AP"
    /\ t <= MaxPortalUptime
    /\ now' = t
    /\ phase' = IF portalRestartDue(rebootIn10mins, t) THEN "restarting" ELSE "running"
    /\ UNCHANGED <<eeprom, config, saved, prior, savePos, sysVars, dispVars,
                   weather, weather_valid, getWeatherCounter, calls, sinceExt, call>>

PortalForms == {BaseForm, [BaseForm EXCEPT !.ssid = <<>>]}

PortalInit ==
    /\ eeprom \in {Blank, saveSettings(Blank, RecA), saveSettings(Blank, RecB)}
    /\ config = ConfigGlobals
    /\ phase = "reset"
    /\ saved = ConfigGlobals
    /\ prior = eeprom
    /\ savePos = 0
    /\ WxIdle
    /\ wifiMode = "OFF"
    /\ rebootIn10mins = FALSE
    /\ httpStatus = 0
    /\ boots = 0
    /\ DispIdle

PortalNext ==
    \/ \E b \in BOOLEAN : SetupPortal(b)
    \/ SetupWifiFailed
    \/ SetupStation("connect_failed", <<>>)
    \/ LoopPortal
    \/ \E f \in PortalForms : SubmitForm(f)
    \/ Reset

SpecPortal == PortalInit /\ [][PortalNext]_vars

\* loop() runs again and again, and ESP.restart() completes
SpecPortalFair == SpecPortal /\ WF_vars(LoopPortal) /\ WF_vars(Reset)

PortalRunning == phase = "running" /\ wifiMode = "AP"

\* C28: a configured device whose WiFi does not join opens the portal
\* without fetching weather and restarts once its uptime exceeds ten
\* minutes; a portal opened for a missing signature or a held button is
\* never restarted by time; in the portal loop() only serves requests and
\* the timed restart: nothing is fetched and nothing is drawn
C28_PortalLoop ==
    /\ [][/\ (phase = "reset" /\ phase' = "running" /\ rebootIn10mins') =>
                (/\ sigOk(eeprom)
                 /\ wifiMode' = "AP"
                 /\ UNCHANGED <<weather, weather_valid, getWeatherCounter,
                                calls, call, lastWeatherFetch>>)
          /\ (PortalRunning /\ phase' = "restarting" /\ now' # now) =>
                (rebootIn10mins /\ now' > AP_REBOOT_MS)
          /\ (PortalRunning /\ phase' = "running" /\ now' > AP_REBOOT_MS) =>
                ~rebootIn10mins
          /\ PortalRunning =>
                (/\ UNCHANGED <<weather, weather_valid, getWeatherCounter, calls,
                                call, lastWeatherFetch, lastScreenSwitch,
                                showWeatherScreen, screen, tod, brightness>>
                 /\ screen = "none")]_vars
    /\ (PortalRunning /\ rebootIn10mins) ~> (phase = "restarting")

\* the second boot of a device whose first boot ended in the timed restart
\* (no form was ever accepted): the button is held, and this portal is
\* still open after more than ten minutes
C28_Witness ==
    /\ PortalRunning
    /\ boots = 2
    /\ httpStatus = 0
    /\ sigOk(eeprom)
    /\ ~rebootIn10mins
    /\ now > AP_REBOOT_MS
    /\ calls = 1

====
